---- MODULE Spec2Model ----
(***************************************************************************)
(* State-machine model of consumer-shared:                                 *)
(*   ConnectionManager  (src/src/config/rabbitmq.ts)                       *)
(*   DlqHandler         (src/src/services/dlq.service.ts)                  *)
(*   BaseConsumer       (src/src/types/index.ts, from line 96)             *)
(* Every async function is split at its awaits: one action is the          *)
(* resolution (or rejection) of the awaited promise together with the      *)
(* synchronous code that runs up to the next await.                        *)
(***************************************************************************)
EXTENDS Integers, Sequences, FiniteSets, TLC

\* ---------------------------------------------------------------- bounds
\* largest reconnectAttempts option a manager is constructed with
MaxReconnectAttempts == 1
\* connections the broker hands out in one run
MaxConns == 2
\* calls of connect() / reconnect() in flight at once
MaxTasks == 2
\* calls of close() in flight at once
MaxCloses == 1
\* callbacks registered with on()
MaxHandlers == 1
\* callbacks a subscribing owner registers with on()
MaxSubscribers == 2
\* largest reconnectAttempts option where the backoff schedule is followed
MaxBackoffAttempts == 3

\* largest maxRetries option a DlqHandler is constructed with, besides the default
MaxRetriesOption == 2
\* deliveries DlqHandler handles at once
MaxDeliveries == 1
\* last instant of the clock
MaxNow == 3
\* calls of start(), of stop() and of DlqHandler.setup() made on one consumer
MaxStarts == 2
MaxStops == 2
MaxSetups == 2
\* null deliveries the broker sends
MaxNulls == 1
\* calls of publish() made on one publisher
MaxPublishes == 3
\* largest retry index a message is retried at
MaxRetryIndex == 21

\* the errors the broker library raises
ConnectErrors == {"refused"}
ChannelErrors == {"reset"}
CloseErrors == {"close failed"}
Events == {"reconnected", "error"}

VARIABLES
    currentState,       \* ConnectionManager.currentState
    connection,         \* ConnectionManager.connection: 0 is null, else a connection id
    channel,            \* ConnectionManager.channel: 0 is null, else the id of its connection
    reconnectAttempts,  \* ConnectionManager.reconnectAttempts
    eventHandlers,      \* ConnectionManager.eventHandlers: per event, the callbacks in order
    conns,              \* the broker connections amqplib.connect has returned
    tasks,              \* the calls of connect() / reconnect(): in flight, or the last finished
    closes,             \* the calls of close(): in flight, or the last finished
    last,               \* observation: the call that settled in the step just taken
    caller,             \* how the owner calls: "orderly" awaits each call and calls
                        \* connect() only when disconnected, "free" calls at any time,
                        \* "subscriber" is orderly and registers several callbacks
    maxRetries,         \* DlqHandler.maxRetries
    msgs,               \* the deliveries handed to DlqHandler, with the channel
                        \* operations issued for each
    now,                \* the clock read by new Date()
    reconnectDelayMs,   \* ConnectionManager.reconnectDelayMs
    consumerTag,        \* BaseConsumer.consumerTag: 0 is null, else the tag of a subscription
    broker,             \* the topology the broker holds and the subscriptions on the queue
    runs,               \* the calls of start(), stop() and DlqHandler.setup() in flight
    nulls,              \* the null deliveries the subscription callback was invoked with
    exchangeAsserted,   \* BasePublisher.exchangeAsserted
    publishes,          \* the calls of BasePublisher.publish(): in flight, or finished
    pubLog              \* the channel calls the publisher has issued, in order

connVars == <<currentState, connection, channel, reconnectAttempts, eventHandlers,
              conns, tasks, closes, last, caller, reconnectDelayMs>>

dlqVars == <<maxRetries, msgs, now>>

lifeVars == <<consumerTag, broker, runs, nulls>>

pubVars == <<exchangeAsserted, publishes, pubLog>>

appVars == <<lifeVars, pubVars>>

vars == <<connVars, dlqVars, appVars>>

\* ===================================================================
\* ConnectionManager
\* ===================================================================

TaskIds == 1..MaxTasks
CloseIds == 1..MaxCloses
ConnIds == 1..Len(conns)

\* a slot of `tasks` no call occupies
FreeTask ==
    [kind |-> "none", pc |-> "free", attempt |-> 0, conn |-> 0,
     calls |-> 0, nfail |-> 0, result |-> "none", explicit |-> FALSE, oldChannel |-> 0,
     \* observation: the delays connect() has slept for, in order
     slept |-> <<>>,
     \* observation: close() was called while this reconnection was in flight,
     \* and connect() was not called since
     closed |-> FALSE]

FreeClose == [pc |-> "free", ops |-> <<>>]

\* nothing settled in the step just taken
Nothing ==
    [op |-> "none", slot |-> 0, kind |-> "none", result |-> "none", ctx |-> "none",
     calls |-> 0, nfail |-> 0, lastFail |-> "none", explicit |-> FALSE,
     oldChannel |-> 0, chan |-> 0, emitted |-> <<>>, ops |-> <<>>, slept |-> <<>>,
     closed |-> FALSE,
     \* the emissions of the step: per emit(), the event, its argument and the
     \* callbacks invoked, in order
     invoked |-> <<>>]

\* the connect() of slot t settled, leaving the task record r; after a failure
\* ctx is the context of the ConnectionError and e the error caught last; after a
\* success r.conn is the connection whose channel it stored
ConnectSettled(t, r, ctx, e) ==
    [Nothing EXCEPT !.op = "connect", !.slot = t, !.kind = r.kind, !.result = r.result,
                    !.ctx = ctx, !.calls = r.calls, !.nfail = r.nfail,
                    !.lastFail = e, !.explicit = r.explicit,
                    !.oldChannel = r.oldChannel, !.chan = r.conn, !.slept = r.slept,
                    !.closed = r.closed]

\* the reconnect() of slot t settled, having emitted evs
ReconnectSettled(t, r, evs) ==
    [ConnectSettled(t, r, "none", "none") EXCEPT !.op = "reconnect", !.emitted = evs]

\* the close() of slot k settled
CloseSettled(k, result, ops) ==
    [Nothing EXCEPT !.op = "close", !.slot = k, !.result = result, !.ops = ops]

\* the connect() of the call in slot t has not settled
InFlight(t) == tasks[t].pc \in {"awaitConnect", "awaitChannel", "sleep"}
FreeTasks == {t \in TaskIds : tasks[t].pc = "free"}
FreeCloses == {k \in CloseIds : closes[k].pc = "free"}

Lowest(S) == CHOOSE x \in S : \A y \in S : x <= y

RECURSIVE LowestN(_, _)
LowestN(S, n) ==
    IF n = 0 THEN {} ELSE {Lowest(S)} \cup LowestN(S \ {Lowest(S)}, n - 1)

\* a call the owner made has not settled
CallPending ==
    \/ \E t \in TaskIds : tasks[t].kind = "connect" /\ InFlight(t)
    \/ \E k \in CloseIds : closes[k].pc # "free"

DEFAULT_RECONNECT_DELAY_MS == 1000

\* the reconnectDelayMs options a manager is constructed with
ReconnectDelays == {DEFAULT_RECONNECT_DELAY_MS, 250}

\* field initialisers: the fields that no option sets
Constructed ==
    /\ currentState = "disconnected"
    /\ connection = 0
    /\ channel = 0
    /\ eventHandlers = [ev \in Events |-> <<>>]
    /\ conns = <<>>
    /\ tasks = [t \in TaskIds |-> FreeTask]
    /\ closes = [k \in CloseIds |-> FreeClose]
    /\ last = Nothing

\* constructor: fields as initialised, options drawn from the bounded set
ConnFields ==
    /\ Constructed
    /\ reconnectAttempts \in 0..MaxReconnectAttempts
    /\ reconnectDelayMs = DEFAULT_RECONNECT_DELAY_MS

\* no DlqHandler at work
DlqIdle ==
    /\ maxRetries = 0
    /\ msgs = <<>>
    /\ now = 0

\* a broker without topology
EmptyBroker ==
    [exchanges |-> {}, queues |-> {}, bindings |-> <<>>, consumers |-> {}, tags |-> 0]

\* no call of the method in flight, none made yet; n counts the calls made and
\* ok those that returned
IdleRun == [pc |-> 0, issued |-> <<>>, result |-> "none", n |-> 0, ok |-> 0]

\* no BaseConsumer at work
LifeIdle ==
    /\ consumerTag = 0
    /\ broker = EmptyBroker
    /\ runs = [start |-> IdleRun, stop |-> IdleRun, setup |-> IdleRun]
    /\ nulls = 0

\* BasePublisher: field initialiser, and no call of publish() made
PubFields ==
    /\ exchangeAsserted = FALSE
    /\ publishes = <<>>
    /\ pubLog = <<>>

\* no BasePublisher at work
PubIdle == PubFields

ConnInit == ConnFields /\ caller = "free" /\ DlqIdle /\ LifeIdle /\ PubIdle

ConnInitOrderly == ConnFields /\ caller = "orderly" /\ DlqIdle /\ LifeIdle /\ PubIdle

\* constructor, with the options that set the backoff schedule
BackoffInit ==
    /\ Constructed
    /\ reconnectAttempts \in 0..MaxBackoffAttempts
    /\ reconnectDelayMs \in ReconnectDelays
    /\ caller = "orderly"
    /\ DlqIdle /\ LifeIdle /\ PubIdle

\* getChannel(): the channel it returns, or the error it throws
getChannel ==
    IF channel = 0 THEN [error |-> "ConnectionError", value |-> 0]
    ELSE [error |-> "none", value |-> channel]

\* the callbacks the owner registers at most
HandlerLimit == IF caller = "subscriber" THEN MaxSubscribers ELSE MaxHandlers

\* on(event, handler): the callbacks are numbered in the order of registration
On(ev) ==
    /\ Len(eventHandlers["reconnected"]) + Len(eventHandlers["error"]) < HandlerLimit
    /\ eventHandlers' = [eventHandlers EXCEPT ![ev] =
           Append(@, Len(eventHandlers["reconnected"]) + Len(eventHandlers["error"]) + 1)]
    /\ last' = Nothing
    /\ UNCHANGED <<dlqVars, appVars, caller, reconnectDelayMs, currentState, connection, channel, reconnectAttempts, conns, tasks,
                   closes>>

\* connect() up to its first await: attempt 0 has called amqplib.connect
NewTask(kind, explicit) ==
    [kind |-> kind, pc |-> "awaitConnect", attempt |-> 0, conn |-> 0,
     calls |-> 1, nfail |-> 0, result |-> "none", explicit |-> explicit,
     oldChannel |-> IF kind = "reconnect" THEN channel ELSE 0, slept |-> <<>>,
     closed |-> FALSE]

\* the task record once its connect() has settled: reconnect() still awaits it,
\* a caller's call is over and leaves its slot
Continue(r) == IF r.kind = "reconnect" THEN [r EXCEPT !.pc = "settle"] ELSE FreeTask

\* connect(), called by the owner of the manager
Connect ==
    /\ FreeTasks # {}
    /\ caller # "free" => (~CallPending /\ currentState = "disconnected")
    /\ currentState' = "connecting"
    /\ tasks' = [t \in TaskIds |->
                   IF t = Lowest(FreeTasks) THEN NewTask("connect", FALSE)
                   ELSE [tasks[t] EXCEPT !.closed = FALSE]]
    /\ last' = Nothing
    /\ UNCHANGED <<dlqVars, appVars, caller, reconnectDelayMs, connection, channel, reconnectAttempts, eventHandlers, conns, closes>>

\* amqplib.connect resolves: this.connection := c, createChannel is called on it
ConnectResolve(t) ==
    /\ tasks[t].pc = "awaitConnect"
    /\ Len(conns) < MaxConns
    /\ conns' = Append(conns, [status |-> "open", listeners |-> 0, closeCalled |-> FALSE])
    /\ connection' = Len(conns) + 1
    /\ tasks' = [tasks EXCEPT ![t].pc = "awaitChannel", ![t].conn = Len(conns) + 1]
    /\ last' = Nothing
    /\ UNCHANGED <<dlqVars, appVars, caller, reconnectDelayMs, currentState, channel, reconnectAttempts, eventHandlers, closes>>

isLastAttemptOffByOne(attempt) == attempt = reconnectAttempts + 1

isLastAttempt(attempt) == attempt = reconnectAttempts

lastErrorOmitted(e) == "none"

\* the context of the ConnectionError: the message of the error just caught
lastError(e) == e

calculateBackoffLinear(attempt) == reconnectDelayMs * (attempt + 1)

\* calculateBackoff(attempt)
calculateBackoff(attempt) == reconnectDelayMs * 2 ^ attempt

\* the state connect() leaves when its attempts are exhausted
stateOnExhaustion(state) == "disconnected"

\* the catch block of connect()'s attempt loop, for the error e
Catch(t, e) ==
    IF isLastAttempt(tasks[t].attempt)
    THEN LET r == [tasks[t] EXCEPT !.nfail = @ + 1, !.conn = 0,
                                   !.result = "ConnectionError"]
         IN /\ currentState' = stateOnExhaustion(currentState)
            /\ tasks' = [tasks EXCEPT ![t] = Continue(r)]
            /\ last' = ConnectSettled(t, r, lastError(e), e)
    ELSE /\ tasks' = [tasks EXCEPT ![t].pc = "sleep", ![t].nfail = @ + 1,
                                   ![t].conn = 0,
                                   ![t].slept = Append(@, calculateBackoff(tasks[t].attempt))]
         /\ last' = Nothing
         /\ UNCHANGED currentState

ConnectReject(t, e) ==
    /\ tasks[t].pc = "awaitConnect"
    /\ Catch(t, e)
    /\ UNCHANGED <<dlqVars, appVars, caller, reconnectDelayMs, connection, channel, reconnectAttempts, eventHandlers, conns, closes>>

\* setupConnectionHandlers(): listeners on this.connection, if there is one
setupConnectionHandlers ==
    IF connection = 0 THEN conns
    ELSE [conns EXCEPT ![connection].listeners = @ + 1]

\* createChannel resolves: channel set, state connected, handlers wired, return
ChannelResolve(t) ==
    /\ tasks[t].pc = "awaitChannel"
    /\ conns[tasks[t].conn].status = "open"
    /\ ~conns[tasks[t].conn].closeCalled
    /\ channel' = tasks[t].conn
    /\ currentState' = "connected"
    /\ conns' = setupConnectionHandlers
    /\ LET r == [tasks[t] EXCEPT !.result = "ok"]
       IN /\ tasks' = [tasks EXCEPT ![t] = Continue([r EXCEPT !.conn = 0])]
          /\ last' = ConnectSettled(t, r, "none", "none")
    /\ UNCHANGED <<dlqVars, appVars, caller, reconnectDelayMs, connection, reconnectAttempts, eventHandlers, closes>>

ChannelReject(t, e) ==
    /\ tasks[t].pc = "awaitChannel"
    /\ Catch(t, e)
    /\ UNCHANGED <<dlqVars, appVars, caller, reconnectDelayMs, connection, channel, reconnectAttempts, eventHandlers, conns, closes>>

\* the backoff sleep ends: attempt++, and the loop condition attempt <= reconnectAttempts
SleepDone(t) ==
    /\ tasks[t].pc = "sleep"
    /\ IF tasks[t].attempt + 1 <= reconnectAttempts
       THEN /\ tasks' = [tasks EXCEPT ![t].pc = "awaitConnect", ![t].attempt = @ + 1,
                                      ![t].calls = @ + 1]
            /\ last' = Nothing
       ELSE LET r == [tasks[t] EXCEPT !.attempt = @ + 1, !.result = "ok"]
            IN /\ tasks' = [tasks EXCEPT ![t] = Continue(r)]
               /\ last' = ConnectSettled(t, r, "none", "none")
    /\ UNCHANGED <<dlqVars, appVars, caller, reconnectDelayMs, currentState, connection, channel, reconnectAttempts, eventHandlers,
                   conns, closes>>

settleEventsErrorTwice(result, threw) ==
    IF result = "ok"
    THEN IF threw THEN <<"reconnected", "error">> ELSE <<"reconnected">>
    ELSE <<"error", "error">>

\* what reconnect() emits once its connect() has settled: 'reconnected' after a
\* success, and 'error' from the catch block, which also catches what a
\* 'reconnected' callback throws
settleEvents(result, threw) ==
    IF result = "ok"
    THEN IF threw THEN <<"reconnected", "error">> ELSE <<"reconnected">>
    ELSE <<"error">>

emitReversed(ev, k) ==
    LET h == eventHandlers[ev]
    IN [i \in 1..(IF k = 0 THEN Len(h) ELSE k) |-> h[Len(h) + 1 - i]]

\* emit(event, ...args): the callbacks the loop invokes, in order, when the k-th
\* callback of the event raises (k = 0: none raises)
emit(ev, k) ==
    SubSeq(eventHandlers[ev], 1, IF k = 0 THEN Len(eventHandlers[ev]) ELSE k)

\* one emit() call as observed
Emission(ev, arg, k) == [event |-> ev, arg |-> arg, cbs |-> emit(ev, k)]

\* the callbacks of ev that can be the one that raises
Raisers(ev) == 1..Len(eventHandlers[ev])

\* reconnect() after its await of connect(); threw: a 'reconnected' callback raises
ReconnectSettle(t, threw) ==
    /\ tasks[t].kind = "reconnect"
    /\ tasks[t].pc = "settle"
    /\ threw => (tasks[t].result = "ok" /\ eventHandlers["reconnected"] # <<>>)
    /\ tasks' = [tasks EXCEPT ![t] = FreeTask]
    /\ LET evs == settleEvents(tasks[t].result, threw)
           arg == IF threw THEN "callback error" ELSE tasks[t].result
       IN \E k \in IF threw THEN Raisers("reconnected") ELSE {0},
             k2 \in {0} \cup Raisers("error") :
             last' = [ReconnectSettled(t, tasks[t], evs) EXCEPT !.invoked =
                        [i \in DOMAIN evs |->
                           IF evs[i] = "reconnected" THEN Emission("reconnected", "none", k)
                           ELSE Emission("error", arg, k2)]]
    /\ UNCHANGED <<dlqVars, appVars, caller, reconnectDelayMs, currentState, connection, channel, reconnectAttempts, eventHandlers,
                   conns, closes>>

\* the guard of the connection's 'close' listener
closeListenerActs(state) == state # "disconnected"

reconnectsStartedNone(n) == 0

\* how many of the n 'close' listeners of a connection start a reconnect(): the
\* first one that acts leaves the state "connecting", so the ones after it act too
reconnectsStarted(n) == IF closeListenerActs(currentState) THEN n ELSE 0

\* the connection c emits 'close' (the broker or the network dropped it, or its
\* close handshake finished, before or after the promise of close() resolves):
\* each listener runs; one that acts clears the
\* references, sets the state to disconnected and calls reconnect(), which runs
\* connect() up to its first await (state connecting)
EmitClose(c) ==
    /\ conns[c].status # "gone"
    /\ LET n == reconnectsStarted(conns[c].listeners)
       IN /\ Cardinality(FreeTasks) >= n
          /\ IF n = 0
             THEN UNCHANGED <<currentState, connection, channel, tasks>>
             ELSE /\ channel' = 0
                  /\ connection' = 0
                  /\ currentState' = "connecting"
                  /\ tasks' = [t \in TaskIds |->
                                 IF t \in LowestN(FreeTasks, n)
                                 THEN NewTask("reconnect", conns[c].closeCalled)
                                 ELSE tasks[t]]
    /\ conns' = [conns EXCEPT ![c].status = "gone"]
    /\ last' = Nothing
    /\ UNCHANGED <<dlqVars, appVars, caller, reconnectDelayMs, reconnectAttempts, eventHandlers, closes>>

\* the errors a broker connection reports with its 'error' event
ConnectionFaults == {"heartbeat timeout"}

RECURSIVE Forward(_, _, _)
\* what the n 'error' listeners of a connection do with the error e, when the
\* k-th 'error' callback raises: each listener emits 'error' with e, and a
\* callback that raises ends the listener and those after it
Forward(n, e, k) ==
    IF n = 0 THEN <<>>
    ELSE IF k # 0 THEN <<Emission("error", e, k)>>
    ELSE <<Emission("error", e, 0)>> \o Forward(n - 1, e, k)

\* the connection c emits 'error' with e: every 'error' listener that
\* setupConnectionHandlers has put on it runs
EmitError(c, e, k) ==
    /\ conns[c].status = "open"
    /\ conns[c].listeners > 0
    /\ last' = [Nothing EXCEPT !.op = "connection error", !.chan = c, !.lastFail = e,
                               !.invoked = Forward(conns[c].listeners, e, k)]
    /\ UNCHANGED <<dlqVars, appVars, caller, reconnectDelayMs, currentState, connection, channel,
                   reconnectAttempts, eventHandlers, conns, tasks, closes>>

\* this.connection.close() is called on c
closeCalledOn(c) == [conns EXCEPT ![c].closeCalled = TRUE]

finallyOnlyOnSuccess(state, raised) == IF raised THEN state ELSE "disconnected"

\* the finally block of close(): the state it leaves
finally(state, raised) == "disconnected"

\* the order in which close() closes what it holds
closeOrder == <<"channel", "connection">>

\* close() up to its first await
Close ==
    /\ FreeCloses # {}
    /\ caller # "free" => ~CallPending
    /\ LET k == Lowest(FreeCloses) IN
       IF channel # 0
       THEN /\ closes' = [closes EXCEPT ![k] =
                [pc |-> "awaitChannelClose", ops |-> <<closeOrder[1]>>]]
            /\ last' = Nothing
            /\ UNCHANGED <<currentState, conns>>
       ELSE IF connection # 0
       THEN /\ closes' = [closes EXCEPT ![k] =
                [pc |-> "awaitConnectionClose", ops |-> <<closeOrder[2]>>]]
            /\ conns' = closeCalledOn(connection)
            /\ last' = Nothing
            /\ UNCHANGED currentState
       ELSE /\ currentState' = finally(currentState, FALSE)
            /\ last' = CloseSettled(k, "returned", <<>>)
            /\ UNCHANGED <<closes, conns>>
    /\ tasks' = [t \in TaskIds |->
                   IF InFlight(t) /\ tasks[t].kind = "reconnect"
                   THEN [tasks[t] EXCEPT !.closed = TRUE] ELSE tasks[t]]
    /\ UNCHANGED <<dlqVars, appVars, caller, reconnectDelayMs, connection, channel, reconnectAttempts, eventHandlers>>

\* channel.close() resolves: this.channel := null, then the connection is closed
ChannelCloseResolve(k) ==
    /\ closes[k].pc = "awaitChannelClose"
    /\ channel' = 0
    /\ IF connection # 0
       THEN /\ closes' = [closes EXCEPT ![k].pc = "awaitConnectionClose",
                                        ![k].ops = Append(@, closeOrder[2])]
            /\ conns' = closeCalledOn(connection)
            /\ last' = Nothing
            /\ UNCHANGED currentState
       ELSE /\ closes' = [closes EXCEPT ![k] = FreeClose]
            /\ currentState' = finally(currentState, FALSE)
            /\ last' = CloseSettled(k, "returned", closes[k].ops)
            /\ UNCHANGED conns
    /\ UNCHANGED <<dlqVars, appVars, caller, reconnectDelayMs, connection, reconnectAttempts, eventHandlers, tasks>>

\* channel.close() rejects: finally, then the error propagates
ChannelCloseReject(k, e) ==
    /\ closes[k].pc = "awaitChannelClose"
    /\ closes' = [closes EXCEPT ![k] = FreeClose]
    /\ currentState' = finally(currentState, TRUE)
    /\ last' = [CloseSettled(k, "threw", closes[k].ops) EXCEPT !.ctx = e]
    /\ UNCHANGED <<dlqVars, appVars, caller, reconnectDelayMs, connection, channel, reconnectAttempts, eventHandlers, conns, tasks>>

\* connection.close() resolves: this.connection := null, finally, return
ConnectionCloseResolve(k) ==
    /\ closes[k].pc = "awaitConnectionClose"
    /\ connection' = 0
    /\ closes' = [closes EXCEPT ![k] = FreeClose]
    /\ currentState' = finally(currentState, FALSE)
    /\ last' = CloseSettled(k, "returned", closes[k].ops)
    /\ UNCHANGED <<dlqVars, appVars, caller, reconnectDelayMs, channel, reconnectAttempts, eventHandlers, conns, tasks>>

\* connection.close() rejects: finally, then the error propagates
ConnectionCloseReject(k, e) ==
    /\ closes[k].pc = "awaitConnectionClose"
    /\ closes' = [closes EXCEPT ![k] = FreeClose]
    /\ currentState' = finally(currentState, TRUE)
    /\ last' = [CloseSettled(k, "threw", closes[k].ops) EXCEPT !.ctx = e]
    /\ UNCHANGED <<dlqVars, appVars, caller, reconnectDelayMs, connection, channel, reconnectAttempts, eventHandlers, conns, tasks>>

\* a step of the call of connect() / reconnect() in slot t
TaskStep(t) ==
    \/ ConnectResolve(t)
    \/ \E e \in ConnectErrors : ConnectReject(t, e)
    \/ ChannelResolve(t)
    \/ \E e \in ChannelErrors : ChannelReject(t, e)
    \/ SleepDone(t)
    \/ \E threw \in BOOLEAN : ReconnectSettle(t, threw)

\* a step of the call of close() in slot k
CloseStep(k) ==
    \/ ChannelCloseResolve(k)
    \/ \E e \in CloseErrors : ChannelCloseReject(k, e)
    \/ ConnectionCloseResolve(k)
    \/ \E e \in CloseErrors : ConnectionCloseReject(k, e)

ConnNext ==
    \/ \E ev \in Events : On(ev)
    \/ Connect
    \/ Close
    \/ \E t \in TaskIds : TaskStep(t)
    \/ \E k \in CloseIds : CloseStep(k)
    \/ \E c \in ConnIds : EmitClose(c)

\* the manager under an owner that calls at any time
SpecConn == ConnInit /\ [][ConnNext]_vars

\* the manager under an owner that awaits each call and connects only when
\* disconnected
SpecConnOrderly == ConnInitOrderly /\ [][ConnNext]_vars

\* the scheduling the runtime guarantees: an awaited broker call settles, a timer
\* fires, a continuation runs
\* a manager with up to MaxBackoffAttempts reconnect attempts, its caller orderly
SpecBackoff == BackoffInit /\ [][ConnNext]_vars

\* constructor; the owner is orderly and registers up to MaxSubscribers callbacks
EventsInit == ConnFields /\ caller = "subscriber" /\ DlqIdle /\ LifeIdle /\ PubIdle

\* the manager, and the 'error' events of its connections
EventsNext ==
    \/ ConnNext
    \/ \E c \in ConnIds, e \in ConnectionFaults, k \in {0} \cup Raisers("error") :
          EmitError(c, e, k)

SpecEvents == EventsInit /\ [][EventsNext]_vars

ConnFair == \A t \in TaskIds : WF_vars(TaskStep(t))

SpecConnLive == SpecConn /\ ConnFair

\* ===================================================================
\* DlqHandler
\* ===================================================================

DEFAULT_MAX_RETRIES == 20
MAX_DELAY_MS == 16 * 60 * 60 * 1000
NOTIFICATIONS_EXCHANGE == "notifications"

\* the options of the handler under study
exchange == "orders"
queue == "orders.created"
serviceName == "orders"

DeliveryIds == 1..MaxDeliveries

\* a header map is a function from header names to values; {...a, ...b}
Merge(h, u) == [k \in DOMAIN h \cup DOMAIN u |-> IF k \in DOMAIN u THEN u[k] ELSE h[k]]

\* headers[k] ?? default
Get(h, k, default) == IF k \in DOMAIN h THEN h[k] ELSE default

Header(k, v) == [x \in {k} |-> v]

\* headers a delivery can arrive with: none, a header of the producer, the
\* headers of an earlier retry publish, with or without a retry count; the retry
\* counts are those around 0 and around maxRetries
OtherHeaders ==
    [k \in {"x-delay", "x-first-failure-timestamp", "x-last-error", "x-trace"} |->
        CASE k = "x-delay" -> 1000
          [] k = "x-first-failure-timestamp" -> 1
          [] k = "x-last-error" -> "earlier error"
          [] k = "x-trace" -> "abc"]

RetryHeaders == {"x-delay", "x-first-failure-timestamp", "x-last-error"}

RetryCounts == {0, 1, maxRetries - 1, maxRetries, maxRetries + 1} \cap Nat

InputHeaders ==
    {Merge([k \in S |-> OtherHeaders[k]], rc) :
        S \in {{}, {"x-trace"}, RetryHeaders, RetryHeaders \cup {"x-trace"}},
        rc \in {<<>>} \cup {Header("x-retry-count", n) : n \in RetryCounts}}

\* payloads: one that JSON.parse accepts and one it rejects
Contents == {[raw |-> "{\"orderId\":1}", json |-> TRUE], [raw |-> "not json", json |-> FALSE]}
\* the routing key of a delivery differs from the name of the queue
RoutingKeys == {"orders.created.eu"}
FailureMessages == {"db timeout"}
\* what the channel does with the calls of one handler run: nothing raises, a
\* publish raises, or the ack raises
Outcomes == {"ok", "publishRaises", "ackRaises"}

FreeDelivery ==
    [pc |-> "free", headers |-> <<>>, content |-> "none", routingKey |-> "none",
     path |-> "none", error |-> "none", retryCount |-> 0, firstFailure |-> 0,
     ops |-> <<>>, thrown |-> "none",
     \* observation: the retries before this delivery of the message, the
     \* first-failure timestamp of the first retry publish of its chain, the
     \* instant of this handling, and the DlqHandler methods called for this delivery
     chain |-> 0, first |-> 0, at |-> 0, calls |-> <<>>,
     \* BaseConsumer: the error its catch block caught for this delivery
     failure |-> [name |-> "none", message |-> "none"]]

\* constructor
DlqInit ==
    /\ maxRetries \in 0..MaxRetriesOption \cup {DEFAULT_MAX_RETRIES, MaxRetryIndex + 1}
    /\ msgs = [d \in DeliveryIds |-> FreeDelivery]
    /\ now = 2

\* a DlqHandler as constructed, and no ConnectionManager at work
DlqOnlyInit ==
    ConnFields /\ reconnectAttempts = 0 /\ caller = "free" /\ DlqInit /\ LifeIdle /\ PubIdle

\* a message is delivered to the consumer: it takes a slot no handler run occupies
Deliver(d) ==
    /\ msgs[d].pc = "free"
    /\ \E h \in InputHeaders, c \in Contents, rk \in RoutingKeys :
          msgs' = [msgs EXCEPT ![d] = [FreeDelivery EXCEPT !.pc = "delivered",
                                                          !.headers = h, !.content = c,
                                                          !.routingKey = rk]]
    /\ UNCHANGED <<connVars, appVars, maxRetries, now>>

\* the promise of the handler run has settled and its caller is done with it
Release(d) ==
    /\ msgs[d].pc \in {"done", "threw"}
    /\ msgs' = [msgs EXCEPT ![d] = FreeDelivery]
    /\ UNCHANGED <<connVars, appVars, maxRetries, now>>

\* what the delayed-message exchange does with the x-delay header of a message
\* it has held back: it leaves it, or negates it
BrokerDelay(h, negate) ==
    IF negate THEN [h EXCEPT !["x-delay"] = 0 - @] ELSE h

\* the delay exchange routes the message of a retry publish back to the queue,
\* with the headers it was published with
Redeliver(d, negate) ==
    /\ msgs[d].pc = "done"
    /\ msgs[d].ops[1].op = "publish"
    /\ msgs[d].ops[1].exchange = exchange \o ".delay"
    /\ negate => msgs[d].ops[1].headers["x-delay"] # 0
    /\ msgs' = [msgs EXCEPT ![d] =
                  [FreeDelivery EXCEPT !.pc = "delivered",
                                       !.headers = BrokerDelay(msgs[d].ops[1].headers, negate),
                                       !.content = msgs[d].ops[1].content,
                                       !.routingKey = msgs[d].ops[1].routingKey,
                                       !.chain = msgs[d].chain + 1,
                                       !.first =
                                           IF msgs[d].chain = 0
                                           THEN msgs[d].ops[1].headers["x-first-failure-timestamp"]
                                           ELSE msgs[d].first]]
    /\ UNCHANGED <<connVars, appVars, maxRetries, now>>

\* time passes
Tick ==
    /\ now < MaxNow
    /\ now' = now + 1
    /\ UNCHANGED <<connVars, appVars, maxRetries, msgs>>

\* channel.publish(exchange, routingKey, content, {headers}); raised: it threw
Publish(ex, rk, content, headers, raised) ==
    [op |-> "publish", exchange |-> ex, routingKey |-> rk, content |-> content,
     headers |-> headers, raised |-> raised]

\* channel.ack(message)
Ack(raised) ==
    [op |-> "ack", exchange |-> "none", routingKey |-> "none", content |-> "none",
     headers |-> <<>>, raised |-> raised]

NackRequeue(raised) ==
    [op |-> "nack", exchange |-> "none", routingKey |-> "none", content |-> "none",
     headers |-> [allUpTo |-> FALSE, requeue |-> TRUE], raised |-> raised]

\* channel.nack(msg, false, false)
Nack(raised) ==
    [op |-> "nack", exchange |-> "none", routingKey |-> "none", content |-> "none",
     headers |-> [allUpTo |-> FALSE, requeue |-> FALSE], raised |-> raised]

Min(a, b) == IF a <= b THEN a ELSE b

calculateDelayExponentOff(retryCount) ==
    IF retryCount = 0 THEN 0
    ELSE Min(1000 * 2 ^ retryCount, MAX_DELAY_MS)

calculateDelayUncapped(retryCount) ==
    IF retryCount = 0 THEN 0 ELSE 1000 * 2 ^ (retryCount - 1)

calculateDelay(retryCount) ==
    IF retryCount = 0 THEN 0
    ELSE Min(1000 * 2 ^ (retryCount - 1), MAX_DELAY_MS)

exhaustedStrict(retryCount) == retryCount > maxRetries

exhaustedEarly(retryCount) == retryCount + 1 >= maxRetries

\* the test of handleRetryableError for the terminal path
exhausted(retryCount) == retryCount >= maxRetries

firstFailureRegenerated(headers) == now

\* headers["x-first-failure-timestamp"] ?? new Date().toISOString()
firstFailureOf(headers) == Get(headers, "x-first-failure-timestamp", now)

\* the record of a handler run at its start: the locals of the method
Started(m, method, path, e) ==
    [m EXCEPT !.path = path, !.error = e,
              !.retryCount = Get(m.headers, "x-retry-count", 0),
              !.firstFailure = firstFailureOf(m.headers),
              !.at = now,
              !.calls = Append(m.calls, method)]

retryHeadersCountKept(headers, retryCount, firstFailure, error) ==
    Merge(headers,
          [k \in {"x-delay", "x-retry-count", "x-first-failure-timestamp", "x-last-error"} |->
              CASE k = "x-delay" -> calculateDelay(retryCount)
                [] k = "x-retry-count" -> retryCount
                [] k = "x-first-failure-timestamp" -> firstFailure
                [] k = "x-last-error" -> error])

retryHeadersMetadataOnly(headers, retryCount, firstFailure, error) ==
    [k \in {"x-delay", "x-retry-count", "x-first-failure-timestamp", "x-last-error"} |->
        CASE k = "x-delay" -> calculateDelay(retryCount)
          [] k = "x-retry-count" -> retryCount + 1
          [] k = "x-first-failure-timestamp" -> firstFailure
          [] k = "x-last-error" -> error]

\* the headers of the retry publish
retryHeaders(headers, retryCount, firstFailure, error) ==
    Merge(headers,
          [k \in {"x-delay", "x-retry-count", "x-first-failure-timestamp", "x-last-error"} |->
              CASE k = "x-delay" -> calculateDelay(retryCount)
                [] k = "x-retry-count" -> retryCount + 1
                [] k = "x-first-failure-timestamp" -> firstFailure
                [] k = "x-last-error" -> error])

dlqHeadersCountBumped(headers, retryCount, firstFailure, error) ==
    Merge(headers,
          [k \in {"x-retry-count", "x-first-failure-timestamp", "x-last-error"} |->
              CASE k = "x-retry-count" -> retryCount + 1
                [] k = "x-first-failure-timestamp" -> firstFailure
                [] k = "x-last-error" -> error])

\* the headers of the dead-letter publish of routeToDlq
dlqHeaders(headers, retryCount, firstFailure, error) ==
    Merge(headers,
          [k \in {"x-retry-count", "x-first-failure-timestamp", "x-last-error"} |->
              CASE k = "x-retry-count" -> retryCount
                [] k = "x-first-failure-timestamp" -> firstFailure
                [] k = "x-last-error" -> error])

originalMessageParsed(content) == [parsed |-> content.raw]

\* JSON.parse(message.content.toString()) with the fallback of publishAlert
originalMessage(content) ==
    IF content.json THEN [parsed |-> content.raw] ELSE [text |-> content.raw]

\* the alert record of publishAlert
Alert(m) ==
    [service |-> serviceName, queue |-> queue, error |-> m.error,
     retryCount |-> m.retryCount, originalMessage |-> originalMessage(m.content),
     timestamp |-> now]

retryOpsAckFirst(pub, outcome) ==
    IF outcome = "publishRaises" THEN <<Ack(FALSE), [pub EXCEPT !.raised = TRUE]>>
    ELSE <<Ack(outcome = "ackRaises"), pub>>

\* the channel calls of the retry path: the publish, then the ack, unless the
\* publish threw
retryOps(pub, outcome) ==
    IF outcome = "publishRaises" THEN <<[pub EXCEPT !.raised = TRUE]>>
    ELSE <<pub, Ack(outcome = "ackRaises")>>

routeToDlqUnderRoutingKey(d, m, outcome) ==
    LET pub == Publish(exchange \o ".dlq", m.routingKey, m.content,
                       dlqHeaders(m.headers, m.retryCount, m.firstFailure, m.error),
                       outcome = "publishRaises")
    IN msgs' = [msgs EXCEPT ![d] =
                  [m EXCEPT !.ops = Append(m.ops, pub),
                            !.pc = IF pub.raised THEN "threw" ELSE "awaitRoute",
                            !.thrown = IF pub.raised THEN "publish failed" ELSE "none"]]

\* routeToDlq(message, error, retryCount, firstFailure) up to the caller's await
routeToDlq(d, m, outcome) ==
    LET pub == Publish(exchange \o ".dlq", queue, m.content,
                       dlqHeaders(m.headers, m.retryCount, m.firstFailure, m.error),
                       outcome = "publishRaises")
    IN msgs' = [msgs EXCEPT ![d] =
                  [m EXCEPT !.ops = Append(m.ops, pub),
                            !.pc = IF pub.raised THEN "threw" ELSE "awaitRoute",
                            !.thrown = IF pub.raised THEN "publish failed" ELSE "none"]]

\* handleRetryableError(message, error) up to its first await, or to its end
handleRetryableError(d, e, outcome) ==
    /\ msgs[d].pc \in {"delivered", "failed"}
    /\ LET headers == msgs[d].headers
           m == Started(msgs[d], "handleRetryableError", "retryable", e)
           retryCount == m.retryCount
           firstFailure == m.firstFailure
       IN IF exhausted(retryCount)
          THEN /\ outcome # "ackRaises"
               /\ routeToDlq(d, m, outcome)
          ELSE LET pub == Publish(exchange \o ".delay", m.routingKey, m.content,
                                  retryHeaders(headers, retryCount, firstFailure, e),
                                  FALSE)
               IN msgs' = [msgs EXCEPT ![d] =
                            [m EXCEPT !.ops = m.ops \o retryOps(pub, outcome),
                                      !.pc = IF outcome = "ok" THEN "done" ELSE "threw",
                                      !.thrown = CASE outcome = "ok" -> "none"
                                                   [] outcome = "publishRaises" -> "publish failed"
                                                   [] outcome = "ackRaises" -> "ack failed"]]
    /\ UNCHANGED <<connVars, appVars, maxRetries, now>>

\* handleNonRetryableError(message, error) up to its first await
handleNonRetryableError(d, e, outcome) ==
    /\ msgs[d].pc \in {"delivered", "failed"}
    /\ outcome # "ackRaises"
    /\ LET m == Started(msgs[d], "handleNonRetryableError", "nonRetryable", e)
       IN routeToDlq(d, m, outcome)
    /\ UNCHANGED <<connVars, appVars, maxRetries, now>>

publishAlertSkipped(d, outcome) ==
    /\ msgs[d].pc = "awaitRoute"
    /\ outcome = "ok"
    /\ msgs' = [msgs EXCEPT ![d].pc = "awaitAlert"]
    /\ UNCHANGED <<connVars, appVars, maxRetries, now>>

\* after `await this.routeToDlq(...)`: publishAlert up to the caller's await
publishAlert(d, outcome) ==
    /\ msgs[d].pc = "awaitRoute"
    /\ outcome # "ackRaises"
    /\ LET m == msgs[d]
           pub == Publish(NOTIFICATIONS_EXCHANGE, "notifications.dlq." \o serviceName,
                          Alert(m), <<>>, outcome = "publishRaises")
       IN msgs' = [msgs EXCEPT ![d] =
                     [m EXCEPT !.ops = Append(m.ops, pub),
                               !.pc = IF pub.raised THEN "threw" ELSE "awaitAlert",
                               !.thrown = IF pub.raised THEN "publish failed" ELSE "none"]]
    /\ UNCHANGED <<connVars, appVars, maxRetries, now>>

\* after `await this.publishAlert(...)`: the ack of the terminal path
ackTerminal(d, outcome) ==
    /\ msgs[d].pc = "awaitAlert"
    /\ outcome # "publishRaises"
    /\ msgs' = [msgs EXCEPT ![d].ops = Append(@, Ack(outcome = "ackRaises")),
                            ![d].pc = IF outcome = "ok" THEN "done" ELSE "threw",
                            ![d].thrown = IF outcome = "ok" THEN "none" ELSE "ack failed"]
    /\ UNCHANGED <<connVars, appVars, maxRetries, now>>

DlqNext ==
    \/ \E d \in DeliveryIds : Deliver(d)
    \/ Tick
    \/ \E d \in DeliveryIds : Release(d)
    \/ \E d \in DeliveryIds, negate \in BOOLEAN : Redeliver(d, negate)
    \/ \E d \in DeliveryIds, e \in FailureMessages, o \in Outcomes :
          \/ handleRetryableError(d, e, o)
          \/ handleNonRetryableError(d, e, o)
          \/ publishAlert(d, o)
          \/ ackTerminal(d, o)

SpecDlq == DlqOnlyInit /\ [][DlqNext]_vars

\* ===================================================================
\* BasePublisher
\* ===================================================================

\* the exchange of the publisher
publisherExchange == "events"

\* the values publish() is called with: one JSON.stringify turns into text, and
\* one it raises on (a cyclic object)
PublishContents ==
    {[value |-> "order", cyclic |-> FALSE], [value |-> "cycle", cyclic |-> TRUE]}

PublishKeys == {"order.created"}

\* JSON.stringify(content): the text, or the error it raises
stringify(content) ==
    IF content.cyclic THEN [error |-> "TypeError", text |-> ""]
    ELSE [error |-> "none", text |-> "{\"" \o content.value \o "\":1}"]

\* the calls of publish() made so far are numbered in the order they were made
PublishIds == 1..Len(publishes)

\* publish(routingKey, content) up to its await of assertExchangeOnce(), which
\* runs up to its return or to its await of channel.assertExchange
PublishCall(rk, content) ==
    /\ Len(publishes) < MaxPublishes
    /\ publishes' = Append(publishes,
                           [pc |-> IF exchangeAsserted THEN "awaitOnce" ELSE "awaitAssert",
                            routingKey |-> rk, content |-> content, error |-> "none",
                            \* observation: the calls that had settled when
                            \* this one was made
                            settled |-> {q \in PublishIds :
                                           publishes[q].pc \in {"done", "failed"}}])
    /\ pubLog' = IF exchangeAsserted THEN pubLog
                 ELSE Append(pubLog, [op |-> "assertExchange", by |-> Len(publishes) + 1,
                                      exchange |-> publisherExchange, type |-> "topic",
                                      routingKey |-> "", text |-> "", raised |-> FALSE,
                                      asserted |-> exchangeAsserted])
    /\ UNCHANGED <<connVars, dlqVars, lifeVars, exchangeAsserted>>

\* publish() after its await: JSON.stringify, then channel.publish, each of
\* which may raise; asserted is the flag as this code finds it
afterAssert(p, asserted, raised) ==
    LET body == stringify(publishes[p].content)
    IN /\ body.error # "none" => ~raised
       /\ publishes' = [publishes EXCEPT
              ![p].pc = IF body.error = "none" /\ ~raised THEN "done" ELSE "failed",
              ![p].error = IF body.error # "none" THEN body.error
                           ELSE IF raised THEN "publish failed" ELSE "none"]
       /\ pubLog' = IF body.error # "none" THEN pubLog
                    ELSE Append(pubLog, [op |-> "publish", by |-> p,
                                         exchange |-> publisherExchange, type |-> "",
                                         routingKey |-> publishes[p].routingKey,
                                         text |-> body.text, raised |-> raised,
                                         asserted |-> asserted])

\* channel.assertExchange resolves: exchangeAsserted = true, and publish() goes on
AssertResolve(p, raised) ==
    /\ publishes[p].pc = "awaitAssert"
    /\ exchangeAsserted' = TRUE
    /\ afterAssert(p, TRUE, raised)
    /\ UNCHANGED <<connVars, dlqVars, lifeVars>>

AssertRejectRecorded(p, e) ==
    /\ publishes[p].pc = "awaitAssert"
    /\ publishes' = [publishes EXCEPT ![p].pc = "failed", ![p].error = e]
    /\ exchangeAsserted' = TRUE
    /\ UNCHANGED <<connVars, dlqVars, lifeVars, pubLog>>

\* channel.assertExchange rejects: assertExchangeOnce() and publish() reject
AssertReject(p, e) ==
    /\ publishes[p].pc = "awaitAssert"
    /\ publishes' = [publishes EXCEPT ![p].pc = "failed", ![p].error = e]
    /\ UNCHANGED <<connVars, dlqVars, lifeVars, exchangeAsserted, pubLog>>

\* assertExchangeOnce() had returned at once: publish() goes on
OnceReturn(p, raised) ==
    /\ publishes[p].pc = "awaitOnce"
    /\ afterAssert(p, exchangeAsserted, raised)
    /\ UNCHANGED <<connVars, dlqVars, lifeVars, exchangeAsserted>>

\* a BasePublisher as constructed
PublisherInit ==
    /\ ConnFields /\ reconnectAttempts = 0 /\ caller = "free"
    /\ DlqIdle
    /\ LifeIdle
    /\ PubFields

PublisherNext ==
    \/ \E rk \in PublishKeys, content \in PublishContents : PublishCall(rk, content)
    \/ \E p \in PublishIds, raised \in BOOLEAN : AssertResolve(p, raised)
    \/ \E p \in PublishIds, e \in ChannelErrors : AssertReject(p, e)
    \/ \E p \in PublishIds, raised \in BOOLEAN : OnceReturn(p, raised)

SpecPublisher == PublisherInit /\ [][PublisherNext]_vars

\* ===================================================================
\* BaseConsumer
\* ===================================================================

\* the errors processMessage rejects with: an instance of each error class
ErrorClasses == {"RetryableError", "NonRetryableError", "Error"}
Failures == {[name |-> n, message |-> m] : n \in ErrorClasses, m \in FailureMessages}
\* what JSON.parse throws, and what channel.ack throws
SyntaxError == [name |-> "SyntaxError", message |-> "Unexpected token"]
AckError == [name |-> "Error", message |-> "channel closed"]

anyTaggedErrorNonRetryable(e) == e.name # "Error"

\* error instanceof NonRetryableError
instanceofNonRetryableError(e) == e.name = "NonRetryableError"

handleMessageWithoutDecode(d) ==
    /\ msgs[d].pc = "delivered"
    /\ msgs' = [msgs EXCEPT ![d].pc = "processing",
                            ![d].calls = Append(@, "processMessage")]
    /\ UNCHANGED <<connVars, appVars, maxRetries, now>>

\* handleMessage(msg) for a non-null msg, up to its first await or into its catch
\* block: JSON.parse, then the call of processMessage
handleMessage(d) ==
    /\ msgs[d].pc = "delivered"
    /\ msgs' = [msgs EXCEPT ![d] =
                  IF msgs[d].content.json
                  THEN [@ EXCEPT !.pc = "processing",
                                 !.calls = Append(@, "processMessage")]
                  ELSE [@ EXCEPT !.pc = "failed", !.failure = SyntaxError]]
    /\ UNCHANGED <<connVars, appVars, maxRetries, now>>

\* processMessage resolves: channel.ack(msg); raised: the ack threw, into the
\* catch block
ProcessResolve(d, raised) ==
    /\ msgs[d].pc = "processing"
    /\ msgs' = [msgs EXCEPT ![d].ops = Append(@, Ack(raised)),
                            ![d].pc = IF raised THEN "failed" ELSE "acked",
                            ![d].failure = IF raised THEN AckError ELSE @]
    /\ UNCHANGED <<connVars, appVars, maxRetries, now>>

\* processMessage rejects with e: into the catch block
ProcessReject(d, e) ==
    /\ msgs[d].pc = "processing"
    /\ msgs' = [msgs EXCEPT ![d].pc = "failed", ![d].failure = e]
    /\ UNCHANGED <<connVars, appVars, maxRetries, now>>

\* handleError(msg, error) up to its await of the DlqHandler method
handleError(d, outcome) ==
    /\ msgs[d].pc = "failed"
    /\ IF instanceofNonRetryableError(msgs[d].failure)
       THEN handleNonRetryableError(d, msgs[d].failure.message, outcome)
       ELSE handleRetryableError(d, msgs[d].failure.message, outcome)

handleErrorCatchSilent(d, raised) ==
    /\ msgs[d].pc = "threw"
    /\ ~raised
    /\ msgs' = [msgs EXCEPT ![d].pc = "nacked"]
    /\ UNCHANGED <<connVars, appVars, maxRetries, now>>

\* the DlqHandler method rejected: the catch block of handleError nacks
handleErrorCatch(d, raised) ==
    /\ msgs[d].pc = "threw"
    /\ msgs' = [msgs EXCEPT ![d].ops = Append(@, Nack(raised)),
                            ![d].pc = "nacked"]
    /\ UNCHANGED <<connVars, appVars, maxRetries, now>>

\* handleMessage has returned and the delivery is settled
ConsumerRelease(d) ==
    /\ msgs[d].pc \in {"done", "acked", "nacked"}
    /\ msgs' = [msgs EXCEPT ![d] = FreeDelivery]
    /\ UNCHANGED <<connVars, appVars, maxRetries, now>>

ConsumerNext ==
    \/ \E d \in DeliveryIds : Deliver(d)
    \/ Tick
    \/ \E d \in DeliveryIds : ConsumerRelease(d)
    \/ \E d \in DeliveryIds, negate \in BOOLEAN : Redeliver(d, negate)
    \/ \E d \in DeliveryIds : handleMessage(d)
    \/ \E d \in DeliveryIds, raised \in BOOLEAN : ProcessResolve(d, raised)
    \/ \E d \in DeliveryIds, e \in Failures : ProcessReject(d, e)
    \/ \E d \in DeliveryIds, raised \in BOOLEAN : handleErrorCatch(d, raised)
    \/ \E d \in DeliveryIds, o \in Outcomes :
          \/ handleError(d, o)
          \/ publishAlert(d, o)
          \/ ackTerminal(d, o)

\* a BaseConsumer with its DlqHandler
SpecConsumer == DlqOnlyInit /\ [][ConsumerNext]_vars

\* ------------------------------------------------- a message that always fails

\* a consumer with its DlqHandler, maxRetries from the small options
ChainInit ==
    /\ ConnFields /\ reconnectAttempts = 0 /\ caller = "free"
    /\ maxRetries \in 0..MaxRetriesOption \cup {DEFAULT_MAX_RETRIES}
    /\ msgs = [d \in DeliveryIds |-> FreeDelivery]
    /\ now = 2
    /\ LifeIdle
    /\ PubIdle

\* a message without retry headers, with a payload that decodes, is delivered
DeliverFresh(d) ==
    /\ msgs[d].pc = "free"
    /\ \E c \in {x \in Contents : x.json}, rk \in RoutingKeys :
          msgs' = [msgs EXCEPT ![d] = [FreeDelivery EXCEPT !.pc = "delivered",
                                                          !.content = c,
                                                          !.routingKey = rk]]
    /\ UNCHANGED <<connVars, appVars, maxRetries, now>>

\* the errors that are not NonRetryableError
RetryableFailures == {e \in Failures : ~instanceofNonRetryableError(e)}

\* the message has been dead-lettered and acked
DeadLettered(d) ==
    /\ msgs[d].pc = "done"
    /\ msgs[d].ops[1].op = "publish"
    /\ msgs[d].ops[1].exchange = exchange \o ".dlq"

\* the handling of a delivery whose business handler rejects with a retryable
\* error, on a channel whose calls return
ChainStep(d) ==
    \/ handleMessage(d)
    \/ \E e \in RetryableFailures : ProcessReject(d, e)
    \/ handleError(d, "ok")
    \/ publishAlert(d, "ok")
    \/ ackTerminal(d, "ok")

\* the slot of a dead-lettered message is taken by the next message
ChainRelease(d) == DeadLettered(d) /\ ConsumerRelease(d)

ChainNext ==
    \/ \E d \in DeliveryIds : DeliverFresh(d)
    \/ Tick
    \/ \E d \in DeliveryIds : ChainStep(d)
    \/ \E d \in DeliveryIds, negate \in BOOLEAN : Redeliver(d, negate)
    \/ \E d \in DeliveryIds : ChainRelease(d)

\* every handler run goes on, and the delay exchange delivers what it holds
ChainFair ==
    \A d \in DeliveryIds :
        /\ WF_vars(ChainStep(d))
        /\ WF_vars(\E negate \in BOOLEAN : Redeliver(d, negate))

\* a message that fails with a retryable error at every delivery
SpecChain == ChainInit /\ [][ChainNext]_vars /\ ChainFair

\* ------------------------------------------------- start(), stop(), setup()

DEFAULT_PREFETCH_COUNT == 10

\* the routing key the consumer binds its queue with
routingKey == "orders.created.#"

\* the errors a channel call rejects with: the channel failed, or the broker
\* refused the declaration
ChannelFaults == {"reset"}
Refusals == {"PRECONDITION_FAILED", "NOT_FOUND"}

\* a call on the channel
Call(op, a, b, c) == [op |-> op, a |-> a, b |-> b, c |-> c]

setupCallsWithoutNotifications ==
    <<Call("assertExchange", exchange \o ".delay", "x-delayed-message", "topic"),
      Call("assertExchange", exchange \o ".dlq", "topic", ""),
      Call("assertQueue", queue \o ".dlq", "", ""),
      Call("bindQueue", queue \o ".dlq", exchange \o ".dlq", queue)>>

\* the channel calls DlqHandler.setup() awaits, in order
setupCalls ==
    <<Call("assertExchange", exchange \o ".delay", "x-delayed-message", "topic"),
      Call("assertExchange", exchange \o ".dlq", "topic", ""),
      Call("assertQueue", queue \o ".dlq", "", ""),
      Call("bindQueue", queue \o ".dlq", exchange \o ".dlq", queue),
      Call("assertExchange", NOTIFICATIONS_EXCHANGE, "topic", "")>>

startCallsConsumeBeforeSetup ==
    <<Call("prefetch", DEFAULT_PREFETCH_COUNT, "", ""),
      Call("assertExchange", exchange, "topic", ""),
      Call("assertQueue", queue, "", ""),
      Call("bindQueue", queue, exchange, routingKey),
      Call("consume", queue, "", "")>> \o setupCalls

\* the channel calls start() awaits, in order; those of dlqHandler.setup() are
\* awaited inside its await of setup()
startCalls ==
    <<Call("prefetch", DEFAULT_PREFETCH_COUNT, "", ""),
      Call("assertExchange", exchange, "topic", ""),
      Call("assertQueue", queue, "", ""),
      Call("bindQueue", queue, exchange, routingKey)>>
    \o setupCalls
    \o <<Call("consume", queue, "", "")>>

Range(f) == {f[i] : i \in DOMAIN f}

ExchangeNames(b) == {x.name : x \in b.exchanges}

\* the broker accepts the call: a redeclaration must repeat the type, a binding
\* and a subscription need what they name
Accepts(b, c) ==
    CASE c.op = "assertExchange" ->
             \A x \in b.exchanges : x.name = c.a => (x.type = c.b /\ x.delayed = c.c)
      [] c.op = "bindQueue" -> c.a \in b.queues /\ c.b \in ExchangeNames(b)
      [] c.op = "consume" -> c.a \in b.queues
      [] OTHER -> TRUE

\* the broker after it has carried out the call
Carry(b, c) ==
    CASE c.op = "assertExchange" ->
             [b EXCEPT !.exchanges = @ \cup {[name |-> c.a, type |-> c.b, delayed |-> c.c]}]
      [] c.op = "assertQueue" -> [b EXCEPT !.queues = @ \cup {c.a}]
      [] c.op = "bindQueue" ->
             LET binding == [queue |-> c.a, source |-> c.b, pattern |-> c.c]
             IN IF binding \in Range(b.bindings) THEN b
                ELSE [b EXCEPT !.bindings = Append(@, binding)]
      [] c.op = "consume" -> [b EXCEPT !.tags = @ + 1, !.consumers = @ \cup {b.tags + 1}]
      [] c.op = "cancel" -> [b EXCEPT !.consumers = @ \ {c.a}]
      [] OTHER -> b

\* the errors the awaited call c can reject with
Rejections(b, c) ==
    ChannelFaults \cup (IF Accepts(b, c) THEN {}
                        ELSE IF c.op = "assertExchange" THEN {"PRECONDITION_FAILED"}
                        ELSE {"NOT_FOUND"})

\* a call of the method has reached its first await
Begun(r, calls) ==
    [r EXCEPT !.pc = 1, !.issued = <<calls[1]>>, !.result = "none", !.n = @ + 1]

\* the awaited call resolved: the next call is issued, or the method returns
Advance(r, calls) ==
    IF r.pc < Len(calls)
    THEN [r EXCEPT !.pc = @ + 1, !.issued = Append(@, calls[r.pc + 1])]
    ELSE [r EXCEPT !.pc = 0, !.result = "resolved", !.ok = @ + 1]

\* the awaited call rejected with e: the method rejects with it
Abort(r, e) == [r EXCEPT !.pc = 0, !.result = e]

\* start(), called by the owner, up to its first await
Start ==
    /\ runs.start.pc = 0
    /\ runs.start.n < MaxStarts
    /\ runs' = [runs EXCEPT !.start = Begun(@, startCalls)]
    /\ UNCHANGED <<connVars, dlqVars, pubVars, consumerTag, broker, nulls>>

\* the call start() awaits resolves; after the last one, consume, the tag is stored
StartResolve ==
    /\ runs.start.pc > 0
    /\ LET c == runs.start.issued[runs.start.pc]
       IN /\ Accepts(broker, c)
          /\ broker' = Carry(broker, c)
          /\ consumerTag' = IF c.op = "consume" THEN broker.tags + 1 ELSE consumerTag
    /\ runs' = [runs EXCEPT !.start = Advance(@, startCalls)]
    /\ UNCHANGED <<connVars, dlqVars, pubVars, nulls>>

StartReject(e) ==
    /\ runs.start.pc > 0
    /\ e \in Rejections(broker, runs.start.issued[runs.start.pc])
    /\ runs' = [runs EXCEPT !.start = Abort(@, e)]
    /\ UNCHANGED <<connVars, dlqVars, pubVars, consumerTag, broker, nulls>>

\* DlqHandler.setup(), called by the owner, up to its first await
Setup ==
    /\ runs.setup.pc = 0
    /\ runs.setup.n < MaxSetups
    /\ runs' = [runs EXCEPT !.setup = Begun(@, setupCalls)]
    /\ UNCHANGED <<connVars, dlqVars, pubVars, consumerTag, broker, nulls>>

SetupResolve ==
    /\ runs.setup.pc > 0
    /\ Accepts(broker, runs.setup.issued[runs.setup.pc])
    /\ broker' = Carry(broker, runs.setup.issued[runs.setup.pc])
    /\ runs' = [runs EXCEPT !.setup = Advance(@, setupCalls)]
    /\ UNCHANGED <<connVars, dlqVars, pubVars, consumerTag, nulls>>

SetupReject(e) ==
    /\ runs.setup.pc > 0
    /\ e \in Rejections(broker, runs.setup.issued[runs.setup.pc])
    /\ runs' = [runs EXCEPT !.setup = Abort(@, e)]
    /\ UNCHANGED <<connVars, dlqVars, pubVars, consumerTag, broker, nulls>>

stopCallsAlways == <<Call("cancel", consumerTag, "", "")>>

\* the channel calls stop() awaits
stopCalls == IF consumerTag # 0 THEN <<Call("cancel", consumerTag, "", "")>> ELSE <<>>

\* stop(), called by the owner, up to its await of cancel, or to its end
Stop ==
    /\ runs.stop.pc = 0
    /\ runs.stop.n < MaxStops
    /\ runs' = [runs EXCEPT !.stop =
                  IF stopCalls = <<>>
                  THEN [@ EXCEPT !.issued = <<>>, !.result = "resolved", !.n = @ + 1,
                                 !.ok = @ + 1]
                  ELSE Begun(@, stopCalls)]
    /\ UNCHANGED <<connVars, dlqVars, pubVars, consumerTag, broker, nulls>>

\* cancel resolves: this.consumerTag = null
StopResolve ==
    /\ runs.stop.pc > 0
    /\ broker' = Carry(broker, runs.stop.issued[1])
    /\ consumerTag' = 0
    /\ runs' = [runs EXCEPT !.stop = Advance(@, runs.stop.issued)]
    /\ UNCHANGED <<connVars, dlqVars, pubVars, nulls>>

StopReject(e) ==
    /\ runs.stop.pc > 0
    /\ e \in ChannelFaults
    /\ runs' = [runs EXCEPT !.stop = Abort(@, e)]
    /\ UNCHANGED <<connVars, dlqVars, pubVars, consumerTag, broker, nulls>>

\* the broker delivers a message to a subscription of the consumer
Dispatch(d) ==
    /\ broker.consumers # {}
    /\ msgs[d].pc = "free"
    /\ \E c \in Contents, rk \in RoutingKeys :
          msgs' = [msgs EXCEPT ![d] = [FreeDelivery EXCEPT !.pc = "delivered",
                                                          !.content = c,
                                                          !.routingKey = rk]]
    /\ UNCHANGED <<connVars, appVars, maxRetries, now>>

handleMessageNullNacks(ms) == [ms EXCEPT ![1].ops = Append(@, Nack(FALSE))]

\* handleMessage(null): a warning is logged and nothing else is done
handleMessageNull(ms) == ms

\* the broker cancels the subscription tag: the subscription callback is invoked
\* with null
NullDelivery(tag) ==
    /\ tag \in broker.consumers
    /\ nulls < MaxNulls
    /\ broker' = [broker EXCEPT !.consumers = @ \ {tag}]
    /\ nulls' = nulls + 1
    /\ msgs' = handleMessageNull(msgs)
    /\ UNCHANGED <<connVars, pubVars, maxRetries, now, consumerTag, runs>>

\* a consumer as constructed, with its DlqHandler, on a broker without topology
LifecycleInit ==
    /\ ConnFields /\ reconnectAttempts = 0 /\ caller = "free"
    /\ maxRetries = DEFAULT_MAX_RETRIES
    /\ msgs = [d \in DeliveryIds |-> FreeDelivery]
    /\ now = 2
    /\ LifeIdle
    /\ PubIdle

\* the steps of the handling of the delivery d
Handling(d) ==
    \/ handleMessage(d)
    \/ \E raised \in BOOLEAN : ProcessResolve(d, raised)
    \/ \E e \in Failures : ProcessReject(d, e)
    \/ \E raised \in BOOLEAN : handleErrorCatch(d, raised)
    \/ \E o \in Outcomes :
          \/ handleError(d, o)
          \/ publishAlert(d, o)
          \/ ackTerminal(d, o)

\* the owner asserts the topology: start() and direct calls of DlqHandler.setup()
TopologyNext ==
    \/ Start
    \/ StartResolve
    \/ \E e \in ChannelFaults \cup Refusals : StartReject(e)
    \/ Setup
    \/ SetupResolve
    \/ \E e \in ChannelFaults \cup Refusals : SetupReject(e)

SpecTopology == LifecycleInit /\ [][TopologyNext]_vars

LifecycleNext ==
    \/ Start
    \/ StartResolve
    \/ \E e \in ChannelFaults \cup Refusals : StartReject(e)
    \/ Stop
    \/ StopResolve
    \/ \E e \in ChannelFaults : StopReject(e)
    \/ \E d \in DeliveryIds : Dispatch(d)
    \/ \E tag \in 1..MaxStarts : NullDelivery(tag)
    \/ \E d \in DeliveryIds : ConsumerRelease(d)
    \/ \E d \in DeliveryIds : Handling(d)

\* a BaseConsumer from its construction on, with the broker its channel talks to
SpecLifecycle == LifecycleInit /\ [][LifecycleNext]_vars

\* every handler run that can take a step takes one: the event loop runs the
\* continuation of each settled promise, and the business handler settles
LifecycleFair == \A d \in DeliveryIds : WF_vars(Handling(d))

SpecLifecycleLive == SpecLifecycle /\ LifecycleFair

\* ===================================================================
\* Properties of ConnectionManager
\* ===================================================================

\* the connection c emits 'close' in this step
Closes(c) == conns[c].status = "open" /\ conns'[c].status = "gone"

\* C1: an explicit close() never triggers automatic reconnection: when the 'close'
\* event of a connection that close() has closed is delivered, at any point from
\* the call of connection.close() on, the listener starts no connect() and leaves
\* the state as it is, and no reconnect() that such an event started ever emits
\* a notification.
C1_ExplicitCloseNeverReconnects ==
    /\ [][\A c \in ConnIds :
            (Closes(c) /\ conns[c].closeCalled)
                => (tasks' = tasks /\ currentState' = currentState)]_vars
    /\ [](last.op = "reconnect" => ~last.explicit)

\* C2: getChannel() fails with ConnectionError whenever the manager has never
\* connected or its state is disconnected, and returns the channel of the most
\* recent successful connect() when the state is connected (read here outside
\* any close() in progress).
C2_GetChannelFollowsState ==
    /\ currentState = "disconnected" => getChannel.error = "ConnectionError"
    /\ conns = <<>> => getChannel.error = "ConnectionError"
    /\ (currentState = "connected" /\ FreeCloses = CloseIds) => getChannel.error = "none"
    /\ (last.op = "connect" /\ last.result = "ok") =>
          (getChannel.error = "none" /\ getChannel.value = last.chan)

\* C3: close() leaves the state disconnected on every exit path: when closing the
\* channel or the connection raises, that error propagates and the state is
\* disconnected as it does; when nothing raises, the channel was closed before
\* the connection and the state is disconnected on return.
C3_CloseLeavesDisconnected ==
    last.op = "close" =>
        /\ currentState = "disconnected"
        /\ last.result = "threw" => last.ctx \in CloseErrors
        /\ last.result = "returned" =>
              last.ops \in {<<>>, <<"channel">>, <<"connection">>,
                            <<"channel", "connection">>}
        /\ last.result = "threw" =>
              last.ops \in {<<"channel">>, <<"connection">>, <<"channel", "connection">>}

\* C3 witness: close() closed the channel, then closing the connection raised
C3_Witness ==
    /\ last.op = "close"
    /\ last.result = "threw"
    /\ last.ops = <<"channel", "connection">>
    /\ currentState = "disconnected"

\* C4: one call of connect() makes at most reconnectAttempts + 1 attempts; it
\* stops at the first attempt that establishes connection and channel, with state
\* connected; when all reconnectAttempts + 1 attempts fail it stops, with state
\* disconnected and a ConnectionError whose context is the message of the last
\* underlying error.
C4_ConnectAttemptsBounded ==
    /\ \A t \in TaskIds : tasks[t].calls <= reconnectAttempts + 1
    /\ last.op = "connect" =>
        /\ last.calls <= reconnectAttempts + 1
        /\ last.result \in {"ok", "ConnectionError"}
        /\ last.result = "ok" =>
              /\ currentState = "connected"
              /\ last.calls = last.nfail + 1
              /\ last.chan # 0 /\ channel = last.chan
        /\ last.result = "ConnectionError" =>
              /\ currentState = "disconnected"
              /\ last.calls = reconnectAttempts + 1
              /\ last.nfail = reconnectAttempts + 1
              /\ last.ctx = last.lastFail
              /\ last.ctx \in ConnectErrors \cup ChannelErrors

\* C4 witness: connect() failed at its second and last attempt, whose error
\* differs from the error of the first
C4_Witness ==
    /\ last.op = "connect"
    /\ last.result = "ConnectionError"
    /\ last.calls = 2
    /\ last.ctx = "reset"
    /\ connection # 0

\* C5 as stated: once reconnectAttempts (at least one) attempts of a connect()
\* call have failed, that call fails with ConnectionError and the state is
\* disconnected.
C5_FailsAfterReconnectAttemptsFailures ==
    (last.op = "connect" /\ last.nfail >= 1 /\ last.nfail >= reconnectAttempts) =>
        (last.result = "ConnectionError" /\ currentState = "disconnected")

\* C5 amended: connect() fails exactly when reconnectAttempts + 1 attempts of the
\* call have failed: no call is still running with that many failures, a call
\* with that many failures has failed with ConnectionError and state disconnected,
\* and a call with fewer has not failed.
C5_FailsAfterAllAttemptsFail ==
    /\ \A t \in TaskIds : InFlight(t) => tasks[t].nfail <= reconnectAttempts
    /\ last.op = "connect" =>
        /\ last.nfail <= reconnectAttempts + 1
        /\ last.nfail = reconnectAttempts + 1 <=>
              (last.result = "ConnectionError" /\ currentState = "disconnected")

\* C5 witness: with reconnectAttempts = 1, connect() fails after two failed attempts
C5_Witness ==
    /\ reconnectAttempts = 1
    /\ last.op = "connect"
    /\ last.nfail = 2
    /\ last.result = "ConnectionError"

\* C6: when a connection with a 'close' listener closes while the state is
\* connected, the manager clears channel and connection and starts connect()
\* again by itself; every reconnect() so started settles; when the broker
\* accepted one of its reconnectAttempts + 1 attempts, its connect() ended with
\* state connected and a new channel, and it then emitted 'reconnected'.
C6_UnexpectedCloseReconnects ==
    /\ [][\A c \in ConnIds :
            (Closes(c) /\ conns[c].listeners > 0 /\ currentState = "connected")
                => /\ channel' = 0
                   /\ connection' = 0
                   /\ currentState' = "connecting"
                   /\ \E t \in TaskIds : /\ tasks[t].pc = "free"
                                         /\ tasks'[t].kind = "reconnect"
                                         /\ tasks'[t].pc = "awaitConnect"]_vars
    /\ \A t \in TaskIds :
          (tasks[t].kind = "reconnect" /\ InFlight(t))
              ~> (last.op = "reconnect" /\ last.slot = t)
    /\ []((last.op = "connect" /\ last.kind = "reconnect") =>
             /\ last.result = "ok" =>
                   /\ currentState = "connected"
                   /\ channel # 0 /\ channel # last.oldChannel
             /\ last.result # "ok" => last.nfail = reconnectAttempts + 1)
    /\ []((last.op = "reconnect" /\ last.result = "ok") =>
             (last.emitted # <<>> /\ Head(last.emitted) = "reconnected"))

\* C6 witness: a reconnect() started by an unexpected close has succeeded at its
\* second attempt and emitted 'reconnected'
C6_Witness ==
    /\ last.op = "reconnect"
    /\ ~last.explicit
    /\ last.result = "ok"
    /\ last.nfail = 1
    /\ last.emitted = <<"reconnected">>
    /\ currentState = "connected"
    /\ channel # 0

\* C7: a reconnection cycle ends with exactly one kind of notification, matching
\* the outcome: 'reconnected' if and only if its connect() succeeded, 'error' if
\* and only if it failed, never both.
C7_OneNotificationPerCycle ==
    last.op = "reconnect" =>
        /\ last.result = "ok" => last.emitted = <<"reconnected">>
        /\ last.result # "ok" => last.emitted = <<"error">>

\* C8: a reconnection started by a 'close' event never overlaps another connect()
\* or reconnection of the manager that is in flight.
C8_NoOverlappingReconnect ==
    \A t, u \in TaskIds :
        (t # u /\ tasks[t].kind = "reconnect" /\ InFlight(t)) => ~InFlight(u)

\* ===================================================================
\* Properties of DlqHandler
\* ===================================================================

Handled == {d \in DeliveryIds : msgs[d].pc \notin {"free", "delivered"}}

IsAck(o) == o.op = "ack"
IsPublish(o, ex) == o.op = "publish" /\ o.exchange = ex
\* a publish to ex that did not raise precedes position i of the operations of d
PublishedBefore(d, ex, i) ==
    \E j \in 1..(i - 1) : IsPublish(msgs[d].ops[j], ex) /\ ~msgs[d].ops[j].raised

\* C9: DlqHandler acks a message only after handing it on: after the publish to
\* the delay exchange, or on the terminal path after the dead-letter publish and
\* the alert publish; when one of those publishes raises, the error leaves the
\* handler and the handler issues no ack for the message.
C9_AckOnlyAfterHandOver ==
    \A d \in Handled :
        LET ops == msgs[d].ops
            terminal == msgs[d].path = "nonRetryable" \/ msgs[d].retryCount >= maxRetries
        IN /\ \A i \in 1..Len(ops) :
                IsAck(ops[i]) =>
                    IF terminal
                    THEN /\ PublishedBefore(d, "orders.dlq", i)
                         /\ PublishedBefore(d, "notifications", i)
                    ELSE PublishedBefore(d, "orders.delay", i)
           /\ (\E i \in 1..Len(ops) : ops[i].op = "publish" /\ ops[i].raised) =>
                /\ msgs[d].pc = "threw"
                /\ msgs[d].thrown = "publish failed"
                /\ \A i \in 1..Len(ops) : ~IsAck(ops[i])
           /\ msgs[d].pc = "done" => (ops # <<>> /\ IsAck(ops[Len(ops)]))

\* C9 witness: on the terminal path of handleRetryableError the alert publish
\* raised after the dead-letter publish, and the run ended with that error
C9_Witness ==
    \E d \in DeliveryIds :
        /\ msgs[d].path = "retryable"
        /\ msgs[d].pc = "threw"
        /\ Len(msgs[d].ops) = 2
        /\ msgs[d].ops[2].raised
        /\ msgs[d].ops[2].exchange = "notifications"

\* C10: handleRetryableError publishes a message whose x-retry-count is at least
\* maxRetries to the dead-letter exchange and not to the delay exchange, and a
\* message whose x-retry-count is smaller, or absent, to the delay exchange and
\* not to the dead-letter exchange.
C10_ExhaustionBoundary ==
    \A d \in Handled :
        msgs[d].path = "retryable" =>
            LET ops == msgs[d].ops
                count == IF "x-retry-count" \in DOMAIN msgs[d].headers
                         THEN msgs[d].headers["x-retry-count"] ELSE 0
            IN /\ ops # <<>>
               /\ count >= maxRetries =>
                     /\ IsPublish(ops[1], "orders.dlq") /\ ops[1].routingKey = "orders.created"
                     /\ \A i \in 1..Len(ops) : ~IsPublish(ops[i], "orders.delay")
               /\ count < maxRetries =>
                     /\ IsPublish(ops[1], "orders.delay")
                     /\ \A i \in 1..Len(ops) : ~IsPublish(ops[i], "orders.dlq")

\* C10 witness: with the default maxRetries, a message with x-retry-count 20 has
\* been dead-lettered
C10_Witness ==
    \E d \in DeliveryIds :
        /\ maxRetries = DEFAULT_MAX_RETRIES
        /\ msgs[d].path = "retryable"
        /\ msgs[d].pc = "done"
        /\ "x-retry-count" \in DOMAIN msgs[d].headers
        /\ msgs[d].headers["x-retry-count"] = maxRetries
        /\ IsPublish(msgs[d].ops[1], "orders.dlq")

\* the x-retry-count the delivery d arrived with, 0 when it has none
IncomingCount(d) ==
    IF "x-retry-count" \in DOMAIN msgs[d].headers THEN msgs[d].headers["x-retry-count"] ELSE 0

\* the publishes of the handler run of d to the exchange ex
PublishesTo(d, ex) ==
    {i \in 1..Len(msgs[d].ops) : IsPublish(msgs[d].ops[i], ex)}

\* C11 as stated: every call of handleRetryableError publishes the message with
\* x-retry-count equal to the incoming count + 1, and every call of
\* handleNonRetryableError publishes it with the incoming count (0 if absent).
C11_CountIncrementsOnEveryRetryableFailure ==
    \A d \in Handled :
        \A i \in PublishesTo(d, "orders.delay") \cup PublishesTo(d, "orders.dlq") :
            msgs[d].ops[i].headers["x-retry-count"] =
                IF msgs[d].path = "retryable" THEN IncomingCount(d) + 1 ELSE IncomingCount(d)

\* C11 amended: x-retry-count is incremented by exactly 1 on every retry publish
\* (a call of handleRetryableError with incoming count < maxRetries) and on no
\* other publish: the dead-letter publish carries the incoming count (0 if
\* absent) unchanged, both in handleNonRetryableError and in handleRetryableError
\* at exhaustion.
C11_CountIncrementsOnRetryPublishOnly ==
    \A d \in Handled :
        /\ \A i \in PublishesTo(d, "orders.delay") :
              /\ msgs[d].path = "retryable"
              /\ msgs[d].ops[i].headers["x-retry-count"] = IncomingCount(d) + 1
        /\ \A i \in PublishesTo(d, "orders.dlq") :
              msgs[d].ops[i].headers["x-retry-count"] = IncomingCount(d)
        /\ PublishesTo(d, "orders.delay") \cup PublishesTo(d, "orders.dlq") # {}

\* C11 witness: a message that came back from the delay exchange with count 1
\* failed again and was republished with count 2
C11_Witness ==
    \E d \in DeliveryIds :
        /\ msgs[d].path = "retryable"
        /\ msgs[d].pc = "done"
        /\ msgs[d].chain = 1
        /\ IncomingCount(d) = 1
        /\ IsPublish(msgs[d].ops[1], "orders.delay")
        /\ msgs[d].ops[1].headers["x-retry-count"] = 2

\* the retry publishes of d: positions of ops that publish to the delay exchange
RetryPublishes(d) == PublishesTo(d, "orders.delay")

\* C12: for every retry index r >= 0, the incoming x-retry-count of a message that
\* is retried, the x-delay of the republished message is 0 if r = 0 and
\* min(1000 * 2^(r-1), 57600000) otherwise; r = 1, 2, 3, 4, 5, 10 give 1000, 2000,
\* 4000, 8000, 16000, 512000.
C12_DelaySchedule ==
    \A d \in Handled : \A i \in RetryPublishes(d) :
        LET r == IncomingCount(d)
            delay == msgs[d].ops[i].headers["x-delay"]
        IN /\ r >= 0
           /\ r = 0 => delay = 0
           /\ r > 0 => delay = IF 1000 * 2 ^ (r - 1) <= 57600000
                              THEN 1000 * 2 ^ (r - 1) ELSE 57600000
           /\ r = 1 => delay = 1000
           /\ r = 2 => delay = 2000
           /\ r = 3 => delay = 4000
           /\ r = 4 => delay = 8000
           /\ r = 5 => delay = 16000
           /\ r = 10 => delay = 512000

\* C12 witness: a message with x-retry-count 10 was republished with x-delay 512000
C12_Witness ==
    \E d \in DeliveryIds :
        /\ msgs[d].pc = "done"
        /\ IncomingCount(d) = 10
        /\ RetryPublishes(d) = {1}
        /\ msgs[d].ops[1].headers["x-delay"] = 512000

\* C13 as stated: for every retry index r >= 15 the x-delay of the republished
\* message is exactly 57600000.
C13_CapFromIndex15 ==
    \A d \in Handled : \A i \in RetryPublishes(d) :
        IncomingCount(d) >= 15 => msgs[d].ops[i].headers["x-delay"] = 57600000

\* C13 amended: the cap of 57600000 ms is reached at retry index 17 and beyond:
\* for every r >= 17 the x-delay of the republished message is exactly 57600000,
\* for every r < 17 it is below the cap, and r = 15 and r = 16 give 16384000 and
\* 32768000.
C13_CapFromIndex17 ==
    \A d \in Handled : \A i \in RetryPublishes(d) :
        LET r == IncomingCount(d)
            delay == msgs[d].ops[i].headers["x-delay"]
        IN /\ r >= 17 => delay = 57600000
           /\ r < 17 => delay < 57600000
           /\ r = 15 => delay = 16384000
           /\ r = 16 => delay = 32768000

\* C13 witness: a message with x-retry-count 21 was republished with the cap as
\* its x-delay
C13_Witness ==
    \E d \in DeliveryIds :
        /\ msgs[d].pc = "done"
        /\ IncomingCount(d) = MaxRetryIndex
        /\ RetryPublishes(d) = {1}
        /\ msgs[d].ops[1].headers["x-delay"] = 57600000

\* C14: x-first-failure-timestamp is set once and then preserved: along a chain of
\* retries of one message, each consuming the headers of the previous republish,
\* and on the final dead-letter publish, the header equals the value of the
\* first retry publish; it is taken from the clock only when the incoming
\* message has no such header, and otherwise copied from the incoming message.
C14_FirstFailurePreserved ==
    \A d \in Handled :
        \A i \in PublishesTo(d, "orders.delay") \cup PublishesTo(d, "orders.dlq") :
            LET stamp == msgs[d].ops[i].headers["x-first-failure-timestamp"]
                given == "x-first-failure-timestamp" \in DOMAIN msgs[d].headers
            IN /\ msgs[d].chain > 0 => (given /\ stamp = msgs[d].first)
               /\ given => stamp = msgs[d].headers["x-first-failure-timestamp"]
               /\ ~given => stamp = msgs[d].at

\* C14 witness: a message without the header failed at instant 2, was retried,
\* failed again at instant 3 and was dead-lettered with the timestamp 2
C14_Witness ==
    \E d \in DeliveryIds :
        /\ msgs[d].pc = "done"
        /\ msgs[d].chain = 1
        /\ msgs[d].at = 3
        /\ PublishesTo(d, "orders.dlq") = {1}
        /\ msgs[d].ops[1].headers["x-first-failure-timestamp"] = 2

\* the delivery d is on the terminal path: non-retryable, or retryable at exhaustion
Terminal(d) ==
    msgs[d].path = "nonRetryable" \/ IncomingCount(d) >= maxRetries

\* C15: the terminal path, in handleRetryableError at exhaustion and in
\* handleNonRetryableError, issues in this order the publish of the original
\* payload to {exchange}.dlq under the queue name, the publish of the alert to
\* 'notifications' under notifications.dlq.{serviceName}, and the ack of the
\* message: a run that completes has issued exactly these three calls, a run
\* that a raising call ended has issued a prefix of them, and none publishes to
\* the delay exchange.
C15_TerminalPathOrder ==
    \A d \in Handled :
        Terminal(d) =>
            LET ops == msgs[d].ops IN
            /\ Len(ops) \in 1..3
            /\ IsPublish(ops[1], "orders.dlq")
            /\ ops[1].routingKey = "orders.created"
            /\ ops[1].content = msgs[d].content
            /\ Len(ops) >= 2 =>
                  /\ IsPublish(ops[2], "notifications")
                  /\ ops[2].routingKey = "notifications.dlq.orders"
            /\ Len(ops) = 3 => IsAck(ops[3])
            /\ \A i \in 1..(Len(ops) - 1) : ~ops[i].raised
            /\ msgs[d].pc = "done" => (Len(ops) = 3 /\ ~ops[3].raised)
            /\ msgs[d].pc = "awaitRoute" => Len(ops) = 1
            /\ msgs[d].pc = "awaitAlert" => Len(ops) = 2
            /\ msgs[d].pc = "threw" => ops[Len(ops)].raised

\* C15 witness: handleNonRetryableError has completed with its three calls
C15_Witness ==
    \E d \in DeliveryIds :
        /\ msgs[d].path = "nonRetryable"
        /\ msgs[d].pc = "done"
        /\ Len(msgs[d].ops) = 3
        /\ msgs[d].ops[1].exchange = "orders.dlq"
        /\ msgs[d].ops[2].exchange = "notifications"
        /\ msgs[d].ops[3].op = "ack"

\* C16: x-delay appears on retry publishes only: every message published to the
\* delay exchange carries x-delay, and no message published to the dead-letter
\* exchange or to the notifications exchange carries it, whatever number of
\* retries the message went through before (read here for the messages that
\* start without x-delay and those the delay exchange has redelivered).
C16_DelayHeaderOnRetryOnly ==
    \A d \in Handled :
        (msgs[d].chain > 0 \/ "x-delay" \notin DOMAIN msgs[d].headers) =>
        /\ \A i \in PublishesTo(d, "orders.delay") :
              "x-delay" \in DOMAIN msgs[d].ops[i].headers
        /\ \A i \in PublishesTo(d, "orders.dlq") \cup PublishesTo(d, "notifications") :
              "x-delay" \notin DOMAIN msgs[d].ops[i].headers

\* the handler run of d has settled
Settled(d) == msgs[d].pc \in {"done", "threw"}

\* C17: exactly one alert is published per terminal failure: a handler run issues
\* at most one dead-letter publish and at most one alert publish; each alert
\* publish follows a dead-letter publish of the same message that did not raise
\* and reports that message; once the run has settled, a dead-letter publish
\* that did not raise has been followed by exactly one alert publish; a message
\* that is retried gets no alert.
C17_OneAlertPerTerminalFailure ==
    \A d \in Handled :
        LET alerts == PublishesTo(d, "notifications")
            dead == PublishesTo(d, "orders.dlq")
        IN /\ Cardinality(alerts) <= 1
           /\ Cardinality(dead) <= 1
           /\ ~Terminal(d) => alerts = {}
           /\ RetryPublishes(d) # {} => alerts = {}
           /\ \A i \in alerts :
                 /\ \E j \in dead : j < i /\ ~msgs[d].ops[j].raised
                 /\ msgs[d].ops[i].content.queue = "orders.created"
                 /\ msgs[d].ops[i].content.error = msgs[d].error
                 /\ msgs[d].ops[i].content.originalMessage
                       \in {[parsed |-> msgs[d].content.raw], [text |-> msgs[d].content.raw]}
           /\ (Settled(d) /\ \E j \in dead : ~msgs[d].ops[j].raised) =>
                 Cardinality(alerts) = 1

\* C17 witness: a message that was retried once and then exhausted its retries
\* has been dead-lettered, and one alert with retryCount 1 follows
C17_Witness ==
    \E d \in DeliveryIds :
        /\ msgs[d].pc = "done"
        /\ msgs[d].chain = 1
        /\ msgs[d].path = "retryable"
        /\ PublishesTo(d, "orders.dlq") = {1}
        /\ PublishesTo(d, "notifications") = {2}
        /\ msgs[d].ops[2].content.retryCount = 1

\* the headers the retry metadata lives in
RetryMetadata == {"x-delay", "x-retry-count", "x-first-failure-timestamp", "x-last-error"}

\* C18: a retry republish changes only the retry metadata: the message published
\* to {exchange}.delay has the payload and the routing key of the original
\* message, every header of the original message other than x-delay,
\* x-retry-count, x-first-failure-timestamp and x-last-error with its value, no
\* header besides those and the four, and x-last-error equal to the message of
\* the current error.
C18_RetryChangesOnlyMetadata ==
    \A d \in Handled : \A i \in RetryPublishes(d) :
        LET pub == msgs[d].ops[i]
            kept == DOMAIN msgs[d].headers \ RetryMetadata
        IN /\ pub.content = msgs[d].content
           /\ pub.routingKey = msgs[d].routingKey
           /\ DOMAIN pub.headers = kept \cup RetryMetadata
           /\ \A k \in kept : pub.headers[k] = msgs[d].headers[k]
           /\ pub.headers["x-last-error"] = msgs[d].error
           /\ msgs[d].error \in FailureMessages

\* C18 witness: a message with a producer header and the x-last-error of an
\* earlier failure was republished with the producer header and the new error
C18_Witness ==
    \E d \in DeliveryIds :
        /\ msgs[d].pc = "done"
        /\ RetryPublishes(d) = {1}
        /\ "x-trace" \in DOMAIN msgs[d].headers
        /\ "x-last-error" \in DOMAIN msgs[d].headers
        /\ msgs[d].headers["x-last-error"] = "earlier error"
        /\ msgs[d].ops[1].headers["x-trace"] = "abc"
        /\ msgs[d].ops[1].headers["x-last-error"] = "db timeout"
        /\ msgs[d].ops[1].routingKey = "orders.created.eu"

\* ===================================================================
\* Properties of BaseConsumer
\* ===================================================================

\* how often the method was called for the delivery d
Count(d, method) ==
    Cardinality({i \in 1..Len(msgs[d].calls) : msgs[d].calls[i] = method})

DlqCalls(d) == Count(d, "handleRetryableError") + Count(d, "handleNonRetryableError")

Nacks(d) == {i \in 1..Len(msgs[d].ops) : msgs[d].ops[i].op = "nack"}

\* C19: when the call of the DlqHandler method rejects, the consumer nacks the
\* message with requeue = false as its last channel call for the delivery, once;
\* the message has not been acked by a call that returned, the DlqHandler has
\* been called once for the delivery, and a nack is issued in no other case.
C19_NackWhenDlqHandlerFails ==
    \A d \in DeliveryIds :
        LET ops == msgs[d].ops IN
        /\ msgs[d].pc = "nacked" =>
              /\ msgs[d].thrown # "none"
              /\ Nacks(d) = {Len(ops)}
              /\ ops[Len(ops)].headers = [allUpTo |-> FALSE, requeue |-> FALSE]
              /\ \A i \in 1..Len(ops) : IsAck(ops[i]) => ops[i].raised
              /\ DlqCalls(d) = 1
        /\ msgs[d].pc # "nacked" => Nacks(d) = {}
        /\ msgs[d].pc = "threw" =>
              /\ DlqCalls(d) = 1
              /\ \A i \in 1..Len(ops) : IsAck(ops[i]) => ops[i].raised

\* C19 witness: the alert publish of the terminal path raised after the
\* dead-letter publish, and the consumer has nacked the message
C19_Witness ==
    \E d \in DeliveryIds :
        /\ msgs[d].pc = "nacked"
        /\ msgs[d].thrown = "publish failed"
        /\ Len(msgs[d].ops) = 3
        /\ msgs[d].ops[2].exchange = "notifications"
        /\ msgs[d].ops[3].op = "nack"

\* C20: a failure that is a NonRetryableError leads to one call of
\* handleNonRetryableError and none of handleRetryableError; every other failure
\* (RetryableError, generic Error) leads to one call of handleRetryableError
\* and none of handleNonRetryableError; the business handler is called at most
\* once for a delivery.
C20_FailureClassification ==
    \A d \in DeliveryIds :
        LET nonRetryable == msgs[d].failure.name = "NonRetryableError"
            failed == msgs[d].failure.name # "none"
            entered == msgs[d].pc \in {"awaitRoute", "awaitAlert", "done", "threw", "nacked"}
        IN /\ Count(d, "processMessage") <= 1
           /\ Count(d, "handleNonRetryableError")
                 = IF failed /\ entered /\ nonRetryable THEN 1 ELSE 0
           /\ Count(d, "handleRetryableError")
                 = IF failed /\ entered /\ ~nonRetryable THEN 1 ELSE 0
           /\ entered => failed
           /\ msgs[d].pc = "failed" => failed

\* C20 witness: one delivery whose business handler failed with a RetryableError
\* has been handed to handleRetryableError, after the business handler ran once
C20_Witness ==
    \E d \in DeliveryIds :
        /\ msgs[d].failure.name = "RetryableError"
        /\ msgs[d].calls = <<"processMessage", "handleRetryableError">>
        /\ msgs[d].pc = "done"

\* the consumer has looked at the delivery d
Seen(d) == msgs[d].pc \notin {"free", "delivered"}

\* the DlqHandler method has been entered for the delivery d
Entered(d) == msgs[d].pc \in {"awaitRoute", "awaitAlert", "done", "threw", "nacked"}

Acks(d) == {i \in 1..Len(msgs[d].ops) : msgs[d].ops[i].op = "ack"}

\* C21: a payload that cannot be decoded as JSON goes through the retryable
\* path: the business handler is not called, handleRetryableError is called
\* once (and handleNonRetryableError never), and the consumer issues no ack of
\* its own: every ack for the message is the DlqHandler's, after a publish.
C21_UndecodableIsRetryable ==
    \A d \in DeliveryIds :
        (Seen(d) /\ ~msgs[d].content.json) =>
            /\ Count(d, "processMessage") = 0
            /\ msgs[d].failure = SyntaxError
            /\ msgs[d].pc \notin {"processing", "acked"}
            /\ Count(d, "handleNonRetryableError") = 0
            /\ Count(d, "handleRetryableError") = IF Entered(d) THEN 1 ELSE 0
            /\ Entered(d) => msgs[d].path = "retryable"
            /\ \A i \in Acks(d) : i > 1 /\ msgs[d].ops[i - 1].op = "publish"

\* C21 witness: an undecodable message without retry headers was republished to
\* the delay exchange by handleRetryableError, which then acked it
C21_Witness ==
    \E d \in DeliveryIds :
        /\ msgs[d].pc = "done"
        /\ ~msgs[d].content.json
        /\ msgs[d].calls = <<"handleRetryableError">>
        /\ Len(msgs[d].ops) = 2
        /\ msgs[d].ops[1].exchange = "orders.delay"
        /\ msgs[d].ops[1].headers["x-last-error"] = "Unexpected token"

\* the business handler of the delivery d completed without error: the consumer
\* went on to its ack, the first channel call for the delivery
Processed(d) ==
    /\ Count(d, "processMessage") = 1
    /\ msgs[d].ops # <<>>
    /\ IsAck(msgs[d].ops[1])

\* C22: when the payload decodes and the business handler completes without
\* error, the consumer acks the message exactly once, after the handler has
\* completed, and calls neither DlqHandler method nor nack.
C22_AckOnceOnSuccess ==
    \A d \in DeliveryIds :
        Processed(d) =>
            /\ Acks(d) = {1}
            /\ DlqCalls(d) = 0
            /\ Nacks(d) = {}

\* C23: a null delivery is ignored: the step that handles it starts no business
\* handler, issues no ack and no nack, calls no DlqHandler method (the
\* deliveries and everything recorded for them are unchanged), and leaves the
\* consumer's tag and its calls of start() and stop() as they were.
C23_NullDeliveryIgnored ==
    [][nulls' # nulls =>
          /\ msgs' = msgs
          /\ consumerTag' = consumerTag
          /\ runs' = runs]_vars

\* C23 witness: a null delivery was handled while a message was being processed
C23_Witness ==
    /\ nulls = 1
    /\ \E d \in DeliveryIds : msgs[d].pc = "processing"

\* the topology DlqHandler.setup() asserts
DlqExchanges ==
    {[name |-> exchange \o ".delay", type |-> "x-delayed-message", delayed |-> "topic"],
     [name |-> exchange \o ".dlq", type |-> "topic", delayed |-> ""],
     [name |-> NOTIFICATIONS_EXCHANGE, type |-> "topic", delayed |-> ""]}

DlqBinding == [queue |-> queue \o ".dlq", source |-> exchange \o ".dlq", pattern |-> queue]

\* the broker holds the topology of DlqHandler.setup(), each part once
DlqTopology ==
    /\ {x \in broker.exchanges : x.name \in {y.name : y \in DlqExchanges}} = DlqExchanges
    /\ queue \o ".dlq" \in broker.queues
    /\ Cardinality({i \in DOMAIN broker.bindings :
                      broker.bindings[i].queue = queue \o ".dlq"}) = 1
    /\ DlqBinding \in Range(broker.bindings)

AssertionsIn(calls, op) == Cardinality({i \in DOMAIN calls : calls[i].op = op})

\* C24: setup() is idempotent: no call of it, the first or a later one, direct
\* or inside start(), is refused by the broker; after every call that returns
\* the broker holds the same topology (the three exchanges, the queue, and one
\* binding of the queue to the dead-letter exchange under the queue name); and
\* every call that returns has issued three exchange assertions, the queue
\* assertion and the binding.
C24_SetupIdempotent ==
    /\ runs.setup.result \notin Refusals
    /\ runs.start.result \notin Refusals
    /\ (runs.setup.result = "resolved" \/ runs.start.result = "resolved") => DlqTopology
    /\ (runs.setup.pc = 0 /\ runs.setup.result = "resolved") =>
          /\ Len(runs.setup.issued) = 5
          /\ AssertionsIn(runs.setup.issued, "assertExchange") = 3
          /\ AssertionsIn(runs.setup.issued, "assertQueue") = 1
          /\ AssertionsIn(runs.setup.issued, "bindQueue") = 1
          /\ \A i \in 1..5 : Carry(broker, runs.setup.issued[i]) = broker

\* C24 witness: setup() has returned twice when called directly and once more
\* inside a start()
C24_Witness ==
    /\ runs.setup.ok = 2
    /\ runs.start.ok = 1

\* the calls of start() that precede its subscription
BeforeConsume ==
    <<Call("prefetch", DEFAULT_PREFETCH_COUNT, "", ""),
      Call("assertExchange", exchange, "topic", ""),
      Call("assertQueue", queue, "", ""),
      Call("bindQueue", queue, exchange, routingKey)>> \o setupCalls

IsPrefix(p, q) == Len(p) <= Len(q) /\ SubSeq(q, 1, Len(p)) = p

SubscriptionsOf(calls) == {i \in DOMAIN calls : calls[i].op = "consume"}

\* what a call of start() has issued, and what the broker holds while a
\* subscription exists: what a call of
\* start() has issued is always a prefix of prefetch, exchange, queue, binding,
\* the calls of DlqHandler.setup(), consume, each issued after the one before
\* it resolved; so while any subscription exists, and while any delivery is
\* being handled, the broker holds the consumer's queue and binding and the
\* delay and dead-letter topology; and a call of start() in which a step
\* failed has issued no consume, and stored no tag.
TopologyBeforeSubscription ==
    /\ IsPrefix(runs.start.issued, BeforeConsume \o <<Call("consume", queue, "", "")>>)
    /\ (broker.tags > 0 \/ \E d \in DeliveryIds : msgs[d].pc # "free") =>
          /\ DlqTopology
          /\ queue \in broker.queues
          /\ [queue |-> queue, source |-> exchange, pattern |-> routingKey]
                \in Range(broker.bindings)
    /\ runs.start.result \in ChannelFaults \cup Refusals =>
          \/ SubscriptionsOf(runs.start.issued) = {}
          \/ runs.start.issued[Len(runs.start.issued)].op = "consume"
    /\ broker.tags = runs.start.ok
    /\ consumerTag # 0 => consumerTag <= runs.start.ok

\* C25 witness: a delivery is handled after a start() that returned, and an
\* earlier start() failed at a step before its subscription
C25_Witness ==
    /\ runs.start.n = 2
    /\ runs.start.ok = 1
    /\ runs.start.result = "resolved"
    /\ \E d \in DeliveryIds : msgs[d].pc = "processing"

\* a step in which start() rejects creates no subscription and stores no tag
FailedStartSubscribesNothing ==
    [][(runs'.start.result \in ChannelFaults /\ runs.start.pc > 0 /\ runs'.start.pc = 0) =>
          /\ broker' = broker
          /\ consumerTag' = consumerTag]_vars

\* C25: start() begins consuming only after the topology exists: prefetch, the
\* exchange, the queue, the binding and the calls of DlqHandler.setup() are
\* issued in that order and have all resolved before consume is issued, so no
\* delivery is handled before the delay and dead-letter topology is asserted;
\* and when one of these steps fails, start() creates no subscription.
C25_SubscribeAfterTopology == []TopologyBeforeSubscription /\ FailedStartSubscribesNothing

\* the cancels a call of stop() has issued
Cancels == {i \in DOMAIN runs.stop.issued : runs.stop.issued[i].op = "cancel"}

\* the handling of the delivery d has begun and it is not settled
InHandling(d) == msgs[d].pc \in {"processing", "failed", "awaitRoute", "awaitAlert", "threw"}

IsSettled(d) == msgs[d].pc \in {"acked", "done", "nacked"}

\* a call of stop() issues at most one cancel, with a tag that
\* a start() obtained from the broker; the step that calls stop() issues the
\* cancel exactly when the consumer holds a tag, with that tag; and no step of
\* stop() touches a delivery.
StopCancelsSubscription ==
    [][/\ runs'.stop.n # runs.stop.n =>
             /\ runs'.stop.issued =
                   IF consumerTag = 0 THEN <<>> ELSE <<Call("cancel", consumerTag, "", "")>>
             /\ consumerTag # 0 => consumerTag \in 1..broker.tags
             /\ consumerTag = 0 => runs'.stop.result = "resolved"
       /\ runs'.stop # runs.stop => msgs' = msgs
       /\ (runs.stop.pc > 0 /\ runs'.stop.result = "resolved") =>
             /\ consumerTag' = 0
             /\ runs.stop.issued[1].a \notin broker'.consumers]_vars

\* C26 witness: stop() returned after its cancel while a delivery was in
\* handling, and no subscription is left
C26_Witness ==
    /\ runs.stop.result = "resolved"
    /\ Cancels # {}
    /\ runs.stop.pc = 0
    /\ broker.consumers = {}
    /\ \E d \in DeliveryIds : InHandling(d)

\* a delivery in handling is settled, whether or not stop() has been called or
\* has returned meanwhile
InFlightSettled ==
    \A d \in DeliveryIds : InHandling(d) ~> (IsSettled(d) \/ msgs[d].pc = "free")

\* C26: stop() cancels the subscription with the tag start() stored, issues no
\* cancel when the consumer holds no tag (never started, or already stopped),
\* and does not cancel handling already dispatched: a delivery whose handling
\* has begun is settled (ack, DlqHandler, or nack) also after stop().
C26_StopLeavesHandlingAlone == StopCancelsSubscription /\ InFlightSettled

\* the delays connect() sleeps for after its first n failed attempts
BackoffSchedule(n) == [i \in 1..n |-> reconnectDelayMs * 2 ^ (i - 1)]

\* C27: connect() sleeps reconnectDelayMs * 2^attempt after the failed attempt
\* number attempt (from 0), once after each failed attempt that is not the
\* last: while it runs it has slept once per failed attempt so far, and when it
\* settles it has slept once per failure before a success, and once per failure
\* but the last when it fails; it sleeps at no other time.
C27_BackoffSchedule ==
    /\ \A t \in TaskIds :
          tasks[t].pc # "free" =>
              /\ tasks[t].slept = BackoffSchedule(Len(tasks[t].slept))
              /\ InFlight(t) => Len(tasks[t].slept) = tasks[t].nfail
    /\ last.op \in {"connect", "reconnect"} =>
          /\ last.slept = BackoffSchedule(Len(last.slept))
          /\ last.result = "ok" => Len(last.slept) = last.nfail
          /\ last.result = "ConnectionError" =>
                /\ Len(last.slept) = last.nfail - 1
                /\ Len(last.slept) = reconnectAttempts

\* C27 witness: a connect() with a non-default delay failed after three sleeps
\* of 250, 500 and 1000 ms
C27_Witness ==
    /\ last.op = "connect"
    /\ last.result = "ConnectionError"
    /\ last.slept = <<250, 500, 1000>>

\* the callbacks registered for the other event
OtherHandlers(ev) == UNION {Range(eventHandlers[o]) : o \in Events \ {ev}}

\* C28: on each emission of an event all callbacks registered for it are
\* invoked, in the order of registration, and no callback of the other event
\* is invoked by that emission.
C28_AllCallbacksInOrder ==
    \A i \in DOMAIN last.invoked :
        /\ last.invoked[i].cbs = eventHandlers[last.invoked[i].event]
        /\ Range(last.invoked[i].cbs) \cap OtherHandlers(last.invoked[i].event) = {}

\* the step was an 'error' event of a connection
ErrorEvent == last.op = "connection error"

\* C29: an 'error' event of the connection is forwarded to the 'error'
\* callbacks, in order and with the error of the event, by each listener of the
\* connection, to all of them unless one of them raises; the step changes
\* nothing else: state, channel and connection references, registered
\* callbacks, connections and the calls of connect(), reconnect() and close()
\* in flight are as before, so the event starts no reconnection.
C29_ErrorEventForwardedOnly ==
    [][ErrorEvent' =>
          /\ UNCHANGED <<currentState, connection, channel, reconnectAttempts,
                         eventHandlers, conns, tasks, closes>>
          /\ last'.invoked # <<>>
          /\ Len(last'.invoked) <= conns[last'.chan].listeners
          /\ \A i \in DOMAIN last'.invoked :
                /\ last'.invoked[i].event = "error"
                /\ last'.invoked[i].arg = last'.lastFail
                /\ IsPrefix(last'.invoked[i].cbs, eventHandlers["error"])
                /\ i < Len(last'.invoked) => last'.invoked[i].cbs = eventHandlers["error"]
          /\ (Len(last'.invoked) < conns[last'.chan].listeners) =>
                last'.invoked[Len(last'.invoked)].cbs # <<>>]_vars

\* C29 witness: a connection of a connected manager reported an error, and both
\* 'error' callbacks received it, in the order of their registration
C29_Witness ==
    /\ ErrorEvent
    /\ currentState = "connected"
    /\ Len(eventHandlers["error"]) = 2
    /\ last.invoked = <<[event |-> "error", arg |-> "heartbeat timeout",
                         cbs |-> eventHandlers["error"]]>>

\* the positions of the channel calls op in the publisher's log
PubCalls(op) == {i \in DOMAIN pubLog : pubLog[i].op = op}

\* C30: across the publish() calls on one publisher, overlapping or not, the
\* exchange is asserted at most once, and exactly once when a call has
\* published; every call that has finished has published one message, after an
\* assertion had completed.
C30_ExchangeAssertedOnce ==
    /\ Cardinality(PubCalls("assertExchange")) <= 1
    /\ PubCalls("publish") # {} => Cardinality(PubCalls("assertExchange")) = 1
    /\ \A p \in PublishIds :
          publishes[p].pc = "done" =>
              /\ Cardinality({i \in PubCalls("publish") : pubLog[i].by = p}) = 1
              /\ \A i \in PubCalls("publish") : pubLog[i].by = p => pubLog[i].asserted

\* the assertion of the call p of publish() failed
AssertFailed(p) == publishes[p].pc = "failed" /\ publishes[p].error \in ChannelErrors

\* the assertion of the call p of publish() resolved
AssertPassed(p) ==
    /\ p \in {pubLog[i].by : i \in PubCalls("assertExchange")}
    /\ publishes[p].pc \in {"done", "failed"}
    /\ ~AssertFailed(p)

\* a call whose assertion failed has published nothing, and the flag is set
\* only when an assertion has resolved
FailedAssertPublishesNothing ==
    /\ \A p \in PublishIds :
          AssertFailed(p) => \A i \in PubCalls("publish") : pubLog[i].by # p
    /\ exchangeAsserted => \E p \in PublishIds : AssertPassed(p)

\* the step in which an assertion fails makes its publish() fail with that
\* error and leaves the flag and the channel alone; a publish() called while the
\* flag is not set issues the assertion
FailedAssertIsNotRecorded ==
    [][/\ \A p \in PublishIds :
             (publishes[p].pc = "awaitAssert" /\ AssertFailed(p)') =>
                 /\ exchangeAsserted' = exchangeAsserted
                 /\ pubLog' = pubLog
       /\ (Len(publishes') > Len(publishes) /\ ~exchangeAsserted) =>
             /\ Len(pubLog') = Len(pubLog) + 1
             /\ pubLog'[Len(pubLog')].op = "assertExchange"
             /\ pubLog'[Len(pubLog')].by = Len(publishes')]_vars

\* C31: when the exchange assertion fails, publish() fails with that error and
\* publishes nothing, and the failure does not set exchangeAsserted, so a
\* publish() called afterwards, the flag still unset, asserts again.
C31_FailedAssertionRetried == []FailedAssertPublishesNothing /\ FailedAssertIsNotRecorded

\* C31 witness: the first publish() failed in its assertion, the flag stayed
\* unset, and the second publish() has issued the assertion again
C31_Witness ==
    /\ Len(publishes) = 2
    /\ AssertFailed(1)
    /\ ~exchangeAsserted
    /\ publishes[2].pc = "awaitAssert"
    /\ publishes[2].settled = {1}
    /\ Cardinality(PubCalls("assertExchange")) = 2

\* C32: alert construction does not fail on malformed content: on the terminal
\* path a handler run fails only when a channel call raised, whatever the
\* payload; every alert carries the decoded payload when the payload decodes
\* and its raw text otherwise; and a run that finished on the terminal path has
\* issued the dead-letter publish, the alert publish and the ack, in both cases.
C32_AlertOnMalformedContent ==
    \A d \in Handled :
        LET m == msgs[d]
            alerts == PublishesTo(d, "notifications")
        IN /\ \A i \in alerts :
                 m.ops[i].content.originalMessage =
                    IF m.content.json THEN [parsed |-> m.content.raw]
                    ELSE [text |-> m.content.raw]
           /\ m.pc = "threw" => m.ops # <<>> /\ m.ops[Len(m.ops)].raised
           /\ (m.pc = "done" /\ PublishesTo(d, "orders.dlq") # {}) =>
                 /\ Len(m.ops) = 3
                 /\ IsPublish(m.ops[1], "orders.dlq")
                 /\ IsPublish(m.ops[2], "notifications")
                 /\ IsAck(m.ops[3])
                 /\ \A i \in 1..3 : ~m.ops[i].raised

\* C32 witness: a message whose payload is not JSON was dead-lettered, its alert
\* carries the raw text, and it was acked
C32_Witness ==
    \E d \in DeliveryIds :
        /\ msgs[d].pc = "done"
        /\ ~msgs[d].content.json
        /\ Len(msgs[d].ops) = 3
        /\ IsPublish(msgs[d].ops[2], "notifications")
        /\ msgs[d].ops[2].content.originalMessage = [text |-> msgs[d].content.raw]
        /\ IsAck(msgs[d].ops[3])

\* the handling of the delivery d is over
Completed(d) == msgs[d].pc \in {"acked", "done", "nacked"}

\* the ack and nack calls issued for the delivery d
Settles(d) == {i \in 1..Len(msgs[d].ops) : msgs[d].ops[i].op \in {"ack", "nack"}}

\* C33: a delivery is settled exactly once: at no time has more than one ack or
\* nack call for it returned; and when its handling is over and no ack or nack
\* call raised (decode, business handler, DLQ publish and alert publish may
\* have failed), exactly one ack or nack has been issued for it, a nack being
\* nack(msg, false, false).
C33_SettledExactlyOnce ==
    \A d \in DeliveryIds :
        msgs[d].pc # "free" =>
            /\ Cardinality({i \in Settles(d) : ~msgs[d].ops[i].raised}) <= 1
            /\ (Completed(d) /\ \A i \in Settles(d) : ~msgs[d].ops[i].raised) =>
                  /\ Cardinality(Settles(d)) = 1
                  /\ \A i \in Nacks(d) : msgs[d].ops[i] = Nack(FALSE)

\* C33 witness: the alert publish of a dead-lettered message raised, and the
\* message was nacked once and never acked
C33_Witness ==
    \E d \in DeliveryIds :
        /\ msgs[d].pc = "nacked"
        /\ Len(msgs[d].ops) = 3
        /\ IsPublish(msgs[d].ops[2], "notifications")
        /\ msgs[d].ops[2].raised
        /\ msgs[d].ops[3].op = "nack"
        /\ ~msgs[d].ops[3].raised

\* the x-retry-count header of the publish at position i of the delivery d
PublishedCount(d, i) == msgs[d].ops[i].headers["x-retry-count"]

\* where the chain of the delivery d stands: the delivery number chain + 1
\* arrives with x-retry-count = chain; it is republished to the delay exchange
\* with chain + 1 while chain < maxRetries, and dead-lettered with chain, and
\* one alert, when chain = maxRetries; each delivery invokes the handler once
ChainCounts ==
    \A d \in DeliveryIds :
        msgs[d].pc # "free" =>
            /\ msgs[d].chain <= maxRetries
            /\ IncomingCount(d) = msgs[d].chain
            /\ Count(d, "processMessage") = IF msgs[d].pc = "delivered" THEN 0 ELSE 1
            /\ \A i \in RetryPublishes(d) :
                  /\ msgs[d].chain < maxRetries
                  /\ PublishedCount(d, i) = msgs[d].chain + 1
                  /\ i = 1
            /\ \A i \in PublishesTo(d, "orders.dlq") :
                  /\ msgs[d].chain = maxRetries
                  /\ PublishedCount(d, i) = maxRetries
                  /\ i = 1
            /\ PublishesTo(d, "notifications") \subseteq {2}
            /\ DeadLettered(d) => PublishesTo(d, "notifications") = {2}

\* a dead-lettered message is not republished: its record only leaves its slot
DeadLetteredIsFinal ==
    [][\A d \in DeliveryIds :
          DeadLettered(d) => msgs'[d] \in {msgs[d], FreeDelivery}]_vars

\* C34: a message without retry headers that fails with a retryable error at
\* every delivery is eventually dead-lettered, at its delivery number
\* maxRetries + 1: the handler has run maxRetries + 1 times, the republishes to
\* the delay exchange carried x-retry-count 1..maxRetries, the dead-letter
\* publish carries maxRetries and is followed by one alert, and nothing is
\* published for the message afterwards.
C34_EventuallyDeadLettered ==
    /\ []ChainCounts
    /\ DeadLetteredIsFinal
    /\ \A d \in DeliveryIds :
          (msgs[d].pc = "delivered" /\ msgs[d].chain = 0)
              ~> (DeadLettered(d) /\ msgs[d].chain = maxRetries)

\* C34 witness: with the default maxRetries the delivery number maxRetries + 1
\* of the message has been dead-lettered with x-retry-count = maxRetries
C34_Witness ==
    \E d \in DeliveryIds :
        /\ maxRetries = DEFAULT_MAX_RETRIES
        /\ DeadLettered(d)
        /\ msgs[d].chain = DEFAULT_MAX_RETRIES
        /\ PublishedCount(d, 1) = DEFAULT_MAX_RETRIES

\* C35: a message whose payload decoded and whose business handler completed
\* is never published to the delay exchange or to the dead-letter exchange,
\* also when its ack raises.
C35_ProcessedNeverRepublished ==
    \A d \in DeliveryIds :
        Processed(d) =>
            /\ RetryPublishes(d) = {}
            /\ PublishesTo(d, "orders.dlq") = {}

\* C36: in every reachable state, also between the awaited steps of connect()
\* and close(), the state connected implies that the channel and the connection
\* references are both set, so that getChannel() succeeds.
C36_ConnectedHasReferences ==
    currentState = "connected" =>
        /\ channel # 0
        /\ connection # 0
        /\ getChannel.error = "none"

\* C37: when the connect() of an automatic reconnection settles after close()
\* was called while it was in flight, and that close() has finished, the state
\* is disconnected and the manager holds no channel and no connection.
C37_CloseWinsOverConnect ==
    (/\ last.op = "connect"
     /\ last.closed
     /\ FreeCloses = CloseIds)
    => /\ currentState = "disconnected"
       /\ channel = 0
       /\ connection = 0

\* the broker connections that are open
OpenConnections == {c \in ConnIds : conns[c].status = "open"}

\* C38: at most one broker connection is open at any time, and when connect()
\* has failed the manager holds no connection reference.
C38_AtMostOneOpenConnection ==
    /\ Cardinality(OpenConnections) <= 1
    /\ (last.op = "connect" /\ last.result = "ConnectionError") => connection = 0

\* no connection attempt is in flight
NoAttempt == \A t \in TaskIds : ~InFlight(t)

\* the reconnecting connect() has just given up
ReconnectExhausted ==
    last.op = "connect" /\ last.kind = "reconnect" /\ last.result = "ConnectionError"

\* the reconnect() whose connect() gave up has just returned
ReconnectFailed == last.op = "reconnect" /\ last.result = "ConnectionError"

\* the reconnecting connect() gives up after reconnectAttempts + 1 attempts and
\* leaves the state disconnected; reconnect() then emits 'error' once, with the
\* ConnectionError
FailedReconnectReported ==
    /\ ReconnectExhausted =>
          /\ last.calls = reconnectAttempts + 1
          /\ currentState = "disconnected"
    /\ ReconnectFailed =>
          /\ last.calls = reconnectAttempts + 1
          /\ last.emitted = <<"error">>
          /\ Len(last.invoked) = 1
          /\ last.invoked[1].event = "error"
          /\ last.invoked[1].arg = "ConnectionError"

\* while the state is disconnected and no attempt is in flight, only a connect()
\* of the caller starts an attempt or changes the state
DisconnectedUntilConnect ==
    [][(/\ NoAttempt
        /\ currentState = "disconnected"
        /\ \A t \in TaskIds : tasks'[t].kind # "connect")
       => (NoAttempt' /\ currentState' = "disconnected")]_vars

ScheduledDelay(r) ==
    IF r = 0 THEN 0
    ELSE IF 1000 * 2 ^ (r - 1) <= 57600000 THEN 1000 * 2 ^ (r - 1) ELSE 57600000

\* the x-delay the previous retry publish of the chain carried: the broker hands
\* it back as it was, or negated
PreviousDelay(d) ==
    LET x == msgs[d].headers["x-delay"] IN IF x < 0 THEN 0 - x ELSE x

\* C40: along a retry chain that starts from a message without retry headers,
\* every publish to the delay exchange carries x-retry-count in 1..maxRetries
\* and x-delay = delay(x-retry-count - 1), its x-delay is not below the x-delay
\* of the publish before it in the chain, and the alert's retryCount equals the
\* x-retry-count header of the dead-letter publish.
C40_ChainHeaders ==
    \A d \in DeliveryIds :
        msgs[d].pc # "free" =>
            /\ \A i \in RetryPublishes(d) :
                  LET h == msgs[d].ops[i].headers
                  IN /\ h["x-retry-count"] \in 1..maxRetries
                     /\ h["x-retry-count"] = msgs[d].chain + 1
                     /\ h["x-delay"] = ScheduledDelay(h["x-retry-count"] - 1)
                     /\ msgs[d].chain > 0 => PreviousDelay(d) <= h["x-delay"]
            /\ msgs[d].chain > 0 =>
                  PreviousDelay(d) = ScheduledDelay(msgs[d].chain - 1)
            /\ \A i \in PublishesTo(d, "orders.dlq"), j \in PublishesTo(d, "notifications") :
                  msgs[d].ops[j].content.retryCount =
                      msgs[d].ops[i].headers["x-retry-count"]

\* C40 witness: with the default maxRetries the chain has reached the cap of the
\* schedule, and the message of its last retry publish has been dead-lettered
\* with an alert that carries the count of the dead-letter publish
C40_Witness ==
    \E d \in DeliveryIds :
        /\ maxRetries = DEFAULT_MAX_RETRIES
        /\ DeadLettered(d)
        /\ PreviousDelay(d) = 57600000
        /\ PublishesTo(d, "notifications") = {2}
        /\ msgs[d].ops[2].content.retryCount = DEFAULT_MAX_RETRIES
        /\ msgs[d].ops[1].headers["x-retry-count"] = DEFAULT_MAX_RETRIES
====
